---------------------------- MODULE Spec2Model ----------------------------
(***************************************************************************)
(* Model of the FaaS billing engine (L1KASA/faas-billing-system):          *)
(*   billing/billing_calculator.py   MetricsCalculator, BillingCalculator  *)
(*   billing/metrics_manager.py      SimpleMetricsManager (cost cache)     *)
(*   billing/views.py                plan_limits_check, billing_dashboard, *)
(*                                   update_function_metrics               *)
(*   faas_billing/config.py          Config                                *)
(*   functions/models.py             Function                              *)
(*   functions/views.py              deploy_function, delete_function      *)
(*   functions/knative_manager.py    KnativeManager (answers only)         *)
(*   tarif_plan/models.py            TariffPlan, UserSubscription          *)
(*   tarif_plan/subscription_manager.py   SubscriptionManager              *)
(*   tarif_plan/management/commands/create_default_plans.py                *)
(*                                                                         *)
(* Python's Decimal values are modelled as exact rationals <<n, d>> in     *)
(* lowest terms (d > 0).  Within the value ranges of this model every      *)
(* Decimal operation of the source is exact except the two divisions       *)
(* 100 / efficiency and monthly_price / 730, whose 28-digit results are    *)
(* quantized afterwards to 3 and 4 places; the quantized results equal     *)
(* those of the exact quotient for all inputs used here.                   *)
(***************************************************************************)
EXTENDS Integers, Sequences, FiniteSets, TLC

VARIABLES
    plans,              \* TariffPlan table: tier -> row | None
    subs,               \* UserSubscription table: user -> row | None
    configs,            \* number of BillingConfig rows
    now,                \* timezone.now(): days in Spec and SpecLimits, seconds in the cache specs
    calc,               \* the BillingCalculator object last constructed
    op,                 \* the last operation and its inputs
    pre,                \* the store as the last operation found it (SpecManager: the
                        \* refresh that a read directly follows, and its result)
    function_metrics,   \* the metrics snapshot (Function.metrics / argument)
    cluster_metrics,    \* the optional cluster metrics argument
    calls,              \* breakdowns returned by calculate_function_cost
    ret,                \* value returned by the last direct call
    functions,          \* Function table: id -> row | None
    cache,              \* the Django cache: key -> entry | None
    stored,             \* per cache key, the last refresh that stored and was not cleared
                        \* (SpecFunctions: per row, whether its deployment succeeded)
    procs,              \* the callers running calculate_function_cost_now
    billing_periods,    \* BillingPeriod table: a set of rows
    user_subscriptions  \* UserSubscription table as a set of rows (SpecSubscriptions)

vars == <<plans, subs, configs, now, calc, op, pre,
          function_metrics, cluster_metrics, calls, ret,
          functions, cache, stored, procs, billing_periods, user_subscriptions>>

storeVars == <<plans, subs, configs, now, calc, pre>>
inputVars == <<function_metrics, cluster_metrics>>
managerVars == <<functions, cache, stored, procs, billing_periods, user_subscriptions>>

-----------------------------------------------------------------------------
(* Python values *)

\* Python's None, as a record so that it compares with dicts and rows.
None == [None |-> TRUE]

\* dict.get(key, default)
Get(d, key, default) == IF key \in DOMAIN d THEN d[key] ELSE default

\* truth value of an Optional[dict]: None and {} are both false
Truthy(d) == d # None /\ DOMAIN d # {}

-----------------------------------------------------------------------------
(* decimal.Decimal as exact rationals *)

Abs(x) == IF x < 0 THEN -x ELSE x

RECURSIVE GCD(_, _)
GCD(a, b) == IF b = 0 THEN a ELSE GCD(b, a % b)

Rat(n, d) ==
    LET g == GCD(Abs(n), Abs(d))
        s == IF d < 0 THEN -1 ELSE 1
    IN  <<s * (n \div g), s * (d \div g)>>

RInt(n) == <<n, 1>>
Zero == RInt(0)

RECURSIVE Pow10(_)
Pow10(k) == IF k = 0 THEN 1 ELSE 10 * Pow10(k - 1)

\* Decimal('0.002') is Decimal(2, 3): the digits and the number of places
Decimal(digits, places) == Rat(digits, Pow10(places))

RMul(x, y) ==
    LET g1 == GCD(Abs(x[1]), y[2])
        g2 == GCD(Abs(y[1]), x[2])
    IN  IF x[1] = 0 \/ y[1] = 0 THEN Zero
        ELSE <<(x[1] \div g1) * (y[1] \div g2), (x[2] \div g2) * (y[2] \div g1)>>

RInv(x) == IF x[1] < 0 THEN <<-x[2], -x[1]>> ELSE <<x[2], x[1]>>
RDiv(x, y) == RMul(x, RInv(y))

RAdd(x, y) ==
    LET g == GCD(x[2], y[2])
        l == (x[2] \div g) * y[2]
    IN  Rat(x[1] * (l \div x[2]) + y[1] * (l \div y[2]), l)

RNeg(x) == <<-x[1], x[2]>>
RSub(x, y) == RAdd(x, RNeg(y))

\* x <= y, by the sign of y - x
RLe(x, y) == RSub(y, x)[1] >= 0
RLt(x, y) == RSub(y, x)[1] > 0
RMin(x, y) == IF RLe(x, y) THEN x ELSE y
RMax(x, y) == IF RLe(y, x) THEN x ELSE y

\* (a + b) divided by d, for 0 <= a, b < d, without forming a + b:
\* <<quotient, remainder>>
AddMod(a, b, d) == IF a >= d - b THEN <<1, a - (d - b)>> ELSE <<0, a + b>>

\* (10 * r) divided by d, for 0 <= r < d, without forming 10 * r
Times10Div(r, d) ==
    LET r2 == AddMod(r, r, d)
        r4 == AddMod(r2[2], r2[2], d)
        r8 == AddMod(r4[2], r4[2], d)
        r10 == AddMod(r8[2], r2[2], d)
    IN  <<4 * r2[1] + 2 * r4[1] + r8[1] + r2[1] + r10[1], r10[2]>>

\* n / d scaled by 10^k and cut to an integer, by long division (0 <= n, 0 < d);
\* the result is <<integer part, remainder>>
RECURSIVE LongDiv(_, _, _)
LongDiv(n, d, k) ==
    IF k = 0 THEN <<n \div d, n % d>>
    ELSE LET p == LongDiv(n, d, k - 1)
             t == Times10Div(p[2], d)
         IN  <<p[1] * 10 + t[1], t[2]>>

ROUND_HALF_EVEN == "ROUND_HALF_EVEN"
ROUND_HALF_UP == "ROUND_HALF_UP"

\* Decimal.quantize(Decimal('1e-places'), rounding): the default context rounds
\* half to even; ROUND_HALF_UP rounds half away from zero.
quantize(x, places, rounding) ==
    LET p == LongDiv(Abs(x[1]), x[2], places)
        up ==
            \/ p[2] > x[2] - p[2]
            \/ /\ p[2] = x[2] - p[2]
               /\ \/ rounding = ROUND_HALF_UP
                  \/ p[1] % 2 = 1
        m == IF up THEN p[1] + 1 ELSE p[1]
    IN  Rat(IF x[1] < 0 THEN -m ELSE m, Pow10(places))

-----------------------------------------------------------------------------
(* BillingCalculator: the pure parts *)

\* calculate_efficiency_factor with the lower clamp of line 277 left out
efficiency_factor_without_floor(efficiency, min_efficiency, max_efficiency) ==
    IF RLe(efficiency, Zero) THEN max_efficiency
    ELSE quantize(RMin(max_efficiency, RDiv(RInt(100), efficiency)), 3, ROUND_HALF_UP)

\* calculate_efficiency_factor(efficiency, min_efficiency, max_efficiency)
calculate_efficiency_factor(efficiency, min_efficiency, max_efficiency) ==
    IF RLe(efficiency, Zero) THEN max_efficiency
    ELSE LET raw_factor == RDiv(RInt(100), efficiency)
             bounded_factor == RMax(min_efficiency, RMin(max_efficiency, raw_factor))
         IN  quantize(bounded_factor, 3, ROUND_HALF_UP)

\* the load factor with the upper clamp of line 256 left out
load_factor_without_ceiling(cluster_metrics_) ==
    LET cluster_load == RInt(Get(cluster_metrics_, "average_load_percent", 50))
    IN  RMax(Decimal(8, 1),
             RAdd(Decimal(10, 1), RDiv(RSub(cluster_load, RInt(50)), RInt(100))))

\* the load factor of calculate_cold_start_cost (lines 250-256)
load_factor(cluster_metrics_) ==
    LET cluster_load == RInt(Get(cluster_metrics_, "average_load_percent", 50))
        f == RAdd(Decimal(10, 1), RDiv(RSub(cluster_load, RInt(50)), RInt(100)))
    IN  RMax(Decimal(8, 1), RMin(Decimal(15, 1), f))

\* calculate_cold_start_cost(cold_start_count, cluster_metrics, cold_start_penalty)
calculate_cold_start_cost(cold_start_count, cluster_metrics_, cold_start_penalty) ==
    IF cold_start_count <= 0 THEN Zero
    ELSE LET base_cost == RMul(RInt(cold_start_count), cold_start_penalty)
         IN  IF Truthy(cluster_metrics_)
             THEN RMul(base_cost, load_factor(cluster_metrics_))
             ELSE base_cost

-----------------------------------------------------------------------------
(* TariffPlan rows (tarif_plan/models.py) *)

STARTER == "STARTER"
PROFESSIONAL == "PROFESSIONAL"
ENTERPRISE == "ENTERPRISE"
PlanTier == {STARTER, PROFESSIONAL, ENTERPRISE}

\* a row with the field defaults of the model class.  Memory limits and
\* memory requests of the limit check are counted in MiB (the source counts
\* bytes: 2147483648 bytes are 2048 MiB); every value used is a whole number
\* of MiB, so the comparisons of the source are preserved.
TariffPlan(name, tier, is_active, monthly_price) ==
    [ name |-> name, tier |-> tier, is_active |-> is_active,
      cpu_rate_per_hour |-> Decimal(2, 3),
      memory_rate_per_gb_hour |-> Decimal(1, 3),
      cold_start_penalty |-> Decimal(5, 3),
      platform_fee_rate |-> Decimal(13, 1),
      min_efficiency_factor |-> Decimal(7, 1),
      max_efficiency_factor |-> Decimal(13, 1),
      max_functions |-> 10,
      max_cpu_per_function |-> 2000,
      max_memory_per_function |-> 2048,
      max_scale |-> 10,
      monthly_price |-> monthly_price ]

\* the rows the create_default_plans command creates (rates: the field defaults)
create_default_plans(tier) ==
    CASE tier = STARTER ->
            [ TariffPlan("Starter", STARTER, TRUE, Decimal(0, 2)) EXCEPT
                !.max_functions = 5, !.max_cpu_per_function = 1000,
                !.max_memory_per_function = 1024, !.max_scale = 5 ]
      [] tier = PROFESSIONAL ->
            [ TariffPlan("Professional", PROFESSIONAL, TRUE, Decimal(2999, 2)) EXCEPT
                !.max_functions = 20, !.max_cpu_per_function = 2000,
                !.max_memory_per_function = 2048, !.max_scale = 10 ]
      [] tier = ENTERPRISE ->
            [ TariffPlan("Enterprise", ENTERPRISE, TRUE, Decimal(9999, 2)) EXCEPT
                !.max_functions = 100, !.max_cpu_per_function = 4000,
                !.max_memory_per_function = 4096, !.max_scale = 20 ]

\* an enterprise row re-priced by an administrator: every rate differs from
\* the field defaults
CustomPlan ==
    [ create_default_plans(ENTERPRISE) EXCEPT
        !.cpu_rate_per_hour = Decimal(4, 3),
        !.memory_rate_per_gb_hour = Decimal(3, 3),
        !.cold_start_penalty = Decimal(1, 2),
        !.platform_fee_rate = Decimal(12, 1),
        !.min_efficiency_factor = Decimal(50, 2),
        !.max_efficiency_factor = Decimal(200, 2),
        !.monthly_price = Decimal(7300, 2) ]

-----------------------------------------------------------------------------
(* BillingCalculator.calculate_function_cost *)

BytesPerGB == 1073741824
HoursInMonth == 730

\* lines 160-174 with the else branch left out: the fallback constants whatever
\* the plan
fallback_rates(tariff_plan) ==
    [ cpu_rate |-> Decimal(2, 3), memory_rate |-> Decimal(1, 3),
      cold_start_penalty |-> Decimal(5, 3), platform_fee_rate |-> Decimal(13, 1),
      min_efficiency |-> Decimal(7, 1), max_efficiency |-> Decimal(13, 1) ]

\* lines 160-174: the rates of the resolved plan, or the fallback constants
Rates(tariff_plan) ==
    IF tariff_plan = None
    THEN [ cpu_rate |-> Decimal(2, 3), memory_rate |-> Decimal(1, 3),
           cold_start_penalty |-> Decimal(5, 3), platform_fee_rate |-> Decimal(13, 1),
           min_efficiency |-> Decimal(7, 1), max_efficiency |-> Decimal(13, 1) ]
    ELSE [ cpu_rate |-> tariff_plan.cpu_rate_per_hour,
           memory_rate |-> tariff_plan.memory_rate_per_gb_hour,
           cold_start_penalty |-> tariff_plan.cold_start_penalty,
           platform_fee_rate |-> tariff_plan.platform_fee_rate,
           min_efficiency |-> tariff_plan.min_efficiency_factor,
           max_efficiency |-> tariff_plan.max_efficiency_factor ]

\* _calculate_fixed_plan_cost with the period factor of line 296 left out
fixed_plan_cost_per_hour(tariff_plan, period_hours) ==
    IF tariff_plan = None THEN Zero
    ELSE IF tariff_plan.monthly_price = Zero THEN Zero
    ELSE quantize(RDiv(tariff_plan.monthly_price, RInt(HoursInMonth)), 4, ROUND_HALF_EVEN)

\* _calculate_fixed_plan_cost(period_hours)
calculate_fixed_plan_cost(tariff_plan, period_hours) ==
    IF tariff_plan = None THEN Zero
    ELSE IF tariff_plan.monthly_price = Zero THEN Zero
    ELSE quantize(RMul(RDiv(tariff_plan.monthly_price, RInt(HoursInMonth)), period_hours),
                  4, ROUND_HALF_EVEN)

\* lines 176-205: the amounts before they are quantized for the caller
cost_items(tariff_plan, function_metrics_, period_hours, cluster_metrics_) ==
    LET r == Rates(tariff_plan)
        cpu_hours == RMul(RDiv(RInt(Get(function_metrics_, "total_cpu_request", 0)),
                               RInt(1000)), period_hours)
        memory_gb_hours == RMul(RDiv(RInt(Get(function_metrics_, "total_memory_request", 0)),
                                     RInt(BytesPerGB)), period_hours)
        cpu_cost == RMul(cpu_hours, r.cpu_rate)
        memory_cost == RMul(memory_gb_hours, r.memory_rate)
        cold_start_count == Get(function_metrics_, "cold_start_count", 0)
        cold_start_cost == calculate_cold_start_cost(cold_start_count, cluster_metrics_,
                                                     r.cold_start_penalty)
        efficiency == RInt(Get(function_metrics_, "overall_efficiency", 100))
        efficiency_factor == calculate_efficiency_factor(efficiency, r.min_efficiency,
                                                         r.max_efficiency)
        base_cost == RMul(RAdd(RAdd(cpu_cost, memory_cost), cold_start_cost), efficiency_factor)
        final_cost == RMul(base_cost, r.platform_fee_rate)
        fixed_cost == calculate_fixed_plan_cost(tariff_plan, period_hours)
    IN  [ cpu_hours |-> cpu_hours, memory_gb_hours |-> memory_gb_hours,
          cold_start_count |-> cold_start_count, efficiency |-> efficiency,
          cpu_cost |-> cpu_cost, memory_cost |-> memory_cost,
          cold_start_cost |-> cold_start_cost, efficiency_factor |-> efficiency_factor,
          base_cost |-> base_cost, final_cost |-> final_cost, fixed_cost |-> fixed_cost,
          total_cost |-> RAdd(final_cost, fixed_cost) ]

\* lines 207-222 with the fixed plan fee taken off the total instead of added
cost_breakdown_less_fixed_fee(c) ==
    [ cpu_hours |-> quantize(c.cpu_hours, 4, ROUND_HALF_EVEN),
      memory_gb_hours |-> quantize(c.memory_gb_hours, 4, ROUND_HALF_EVEN),
      cold_start_count |-> c.cold_start_count,
      average_efficiency |-> quantize(c.efficiency, 2, ROUND_HALF_EVEN),
      cpu_cost |-> quantize(c.cpu_cost, 4, ROUND_HALF_EVEN),
      memory_cost |-> quantize(c.memory_cost, 4, ROUND_HALF_EVEN),
      cold_start_cost |-> quantize(c.cold_start_cost, 4, ROUND_HALF_EVEN),
      efficiency_factor |-> c.efficiency_factor,
      base_cost |-> quantize(c.base_cost, 4, ROUND_HALF_EVEN),
      final_cost |-> quantize(c.final_cost, 4, ROUND_HALF_EVEN),
      fixed_plan_cost |-> quantize(c.fixed_cost, 4, ROUND_HALF_EVEN),
      total_cost |-> quantize(RSub(c.final_cost, c.fixed_cost), 4, ROUND_HALF_EVEN),
      platform_fee |-> quantize(RSub(c.final_cost, c.base_cost), 4, ROUND_HALF_EVEN) ]

\* lines 207-222: the dict returned to the caller, from the amounts c
cost_breakdown(c) ==
    [ cpu_hours |-> quantize(c.cpu_hours, 4, ROUND_HALF_EVEN),
      memory_gb_hours |-> quantize(c.memory_gb_hours, 4, ROUND_HALF_EVEN),
      cold_start_count |-> c.cold_start_count,
      average_efficiency |-> quantize(c.efficiency, 2, ROUND_HALF_EVEN),
      cpu_cost |-> quantize(c.cpu_cost, 4, ROUND_HALF_EVEN),
      memory_cost |-> quantize(c.memory_cost, 4, ROUND_HALF_EVEN),
      cold_start_cost |-> quantize(c.cold_start_cost, 4, ROUND_HALF_EVEN),
      efficiency_factor |-> c.efficiency_factor,
      base_cost |-> quantize(c.base_cost, 4, ROUND_HALF_EVEN),
      final_cost |-> quantize(c.final_cost, 4, ROUND_HALF_EVEN),
      fixed_plan_cost |-> quantize(c.fixed_cost, 4, ROUND_HALF_EVEN),
      total_cost |-> quantize(c.total_cost, 4, ROUND_HALF_EVEN),
      platform_fee |-> quantize(RSub(c.final_cost, c.base_cost), 4, ROUND_HALF_EVEN) ]

\* calculate_function_cost with line 177 defaulting a missing
\* total_cpu_request to 1000 millicores instead of 0
function_cost_defaulting_cpu(tariff_plan, function_metrics_, period_hours, cluster_metrics_) ==
    cost_breakdown(cost_items(tariff_plan,
                              [ k \in DOMAIN function_metrics_ \cup {"total_cpu_request"} |->
                                  Get(function_metrics_, k, 1000) ],
                              period_hours, cluster_metrics_))

\* calculate_function_cost(function_metrics, period_hours, cluster_metrics) for
\* the resolved plan
function_cost(tariff_plan, function_metrics_, period_hours, cluster_metrics_) ==
    cost_breakdown(cost_items(tariff_plan, function_metrics_, period_hours, cluster_metrics_))

-----------------------------------------------------------------------------
(* MetricsCalculator.calculate_efficiency_metrics *)

\* _calculate_cpu_efficiency / _calculate_memory_efficiency (the same body)
calculate_resource_efficiency(actual_usage, requested) ==
    IF requested = 0 THEN Zero
    ELSE RMin(RMul(Rat(actual_usage, requested), RInt(100)), RInt(100))

\* _calculate_cost_saving(cpu_eff, memory_eff, pod_count)
calculate_cost_saving(cpu_eff, memory_eff, pod_count) ==
    LET avg_efficiency == RDiv(RAdd(cpu_eff, memory_eff), RInt(2))
        scale_factor == RMin(Rat(pod_count, 10), RInt(1))
    IN  RMul(RSub(RInt(100), avg_efficiency), scale_factor)

\* _calculate_performance_score(metrics)
calculate_performance_score(metrics) ==
    LET uptime == Get(metrics, "total_pod_uptime_seconds", 0)
        cold_start == Get(metrics, "max_cold_start_time_seconds", 0)
        uptime_score == RMin(Rat(uptime, 3600), RInt(100))
        cold_start_penalty == RMin(RInt(cold_start * 10), RInt(50))
    IN  RMax(RSub(uptime_score, cold_start_penalty), Zero)

\* calculate_efficiency_metrics(function), on function.metrics; round(x, 2)
\* rounds half to even
calculate_efficiency_metrics(metrics) ==
    LET cpu_efficiency ==
            calculate_resource_efficiency(Get(metrics, "total_cpu_usage", 0),
                                          Get(metrics, "total_cpu_request", 1))
        memory_efficiency ==
            calculate_resource_efficiency(Get(metrics, "total_memory_usage", 0),
                                          Get(metrics, "total_memory_request", 1))
        overall_efficiency == RDiv(RAdd(cpu_efficiency, memory_efficiency), RInt(2))
        cost_saving == calculate_cost_saving(cpu_efficiency, memory_efficiency,
                                             Get(metrics, "pod_count", 0))
    IN  [ cpu_efficiency |-> quantize(cpu_efficiency, 2, ROUND_HALF_EVEN),
          memory_efficiency |-> quantize(memory_efficiency, 2, ROUND_HALF_EVEN),
          overall_efficiency |-> quantize(overall_efficiency, 2, ROUND_HALF_EVEN),
          cost_saving_percent |-> quantize(cost_saving, 2, ROUND_HALF_EVEN),
          performance_score |-> calculate_performance_score(metrics) ]

-----------------------------------------------------------------------------
(* The tariff resolver and the calculator's constructor *)

ACTIVE == "ACTIVE"
SUSPENDED == "SUSPENDED"
CANCELLED == "CANCELLED"
EXPIRED == "EXPIRED"
SubscriptionStatus == {ACTIVE, SUSPENDED, CANCELLED, EXPIRED}

Users == {"u1", "u2"}
\* primary keys of the Function rows
FunctionIds == {1, 11}
\* BillingCalculator(user=None)
NoUser == "nobody"

\* TariffPlan.objects.filter(tier=STARTER, is_active=True).first()
active_starter(plans_) ==
    IF plans_[STARTER] # None /\ plans_[STARTER].is_active THEN plans_[STARTER] ELSE None

\* TariffPlan.objects.create(name="Starter Plan", tier=STARTER, ...): name and
\* tier are unique columns, so the insert raises IntegrityError when either is taken
can_create_starter(plans_) ==
    /\ plans_[STARTER] = None
    /\ \A t \in PlanTier : plans_[t] = None \/ plans_[t].name # "Starter Plan"

\* _get_user_tariff_plan() with the status filter of line 121 left out: any
\* subscription row binds its plan
tariff_plan_of_any_subscription(user, plans_, subs_, fail) ==
    IF fail THEN [tariff_plan |-> None, plans |-> plans_]
    ELSE IF user = NoUser
    THEN [tariff_plan |-> active_starter(plans_), plans |-> plans_]
    ELSE IF subs_[user] # None
    THEN [tariff_plan |-> plans_[subs_[user].tariff_plan], plans |-> plans_]
    ELSE [tariff_plan |-> active_starter(plans_), plans |-> plans_]

\* _get_user_tariff_plan(): the plan returned and the plan table afterwards;
\* fail says that a query inside the try block raised
get_user_tariff_plan(user, plans_, subs_, fail) ==
    IF fail THEN [tariff_plan |-> None, plans |-> plans_]
    ELSE IF user = NoUser
    THEN [tariff_plan |-> active_starter(plans_), plans |-> plans_]
    ELSE IF subs_[user] # None /\ subs_[user].status = ACTIVE
    THEN [tariff_plan |-> plans_[subs_[user].tariff_plan], plans |-> plans_]
    ELSE IF active_starter(plans_) # None
    THEN [tariff_plan |-> active_starter(plans_), plans |-> plans_]
    ELSE IF can_create_starter(plans_)
    THEN LET default_plan == TariffPlan("Starter Plan", STARTER, TRUE, Decimal(0, 2))
         IN  [tariff_plan |-> default_plan,
              plans |-> [plans_ EXCEPT ![STARTER] = default_plan]]
    ELSE [tariff_plan |-> None, plans |-> plans_]

\* UserSubscription row; tariff_plan is the foreign key (the plan's tier)
UserSubscription(tariff_plan, status, start_date, end_date, auto_renew) ==
    [ tariff_plan |-> tariff_plan, status |-> status, start_date |-> start_date,
      end_date |-> end_date, auto_renew |-> auto_renew ]

\* BillingCalculator.__init__(user): fault names the query that raises, if any.
\* The config lookup of line 97 is outside any try block; the tariff lookup's
\* exceptions are caught by _get_user_tariff_plan.
billing_calculator_init(user, fault, plans_, subs_, configs_) ==
    IF fault = "config_lookup"
    THEN [raised |-> TRUE, calc |-> None, plans |-> plans_, configs |-> configs_]
    ELSE LET r == get_user_tariff_plan(user, plans_, subs_, fault = "tariff_lookup")
         IN  [ raised |-> FALSE,
               calc |-> [user |-> user, tariff_plan |-> r.tariff_plan],
               plans |-> r.plans,
               configs |-> IF configs_ = 0 THEN 1 ELSE configs_ ]

Faults == {"none", "tariff_lookup", "config_lookup"}

-----------------------------------------------------------------------------
(* BillingCalculator.check_plan_limits *)

\* Function row (functions/models.py); metrics is the JSON field
Function(id, user, min_scale, max_scale, metrics) ==
    [ id |-> id, user |-> user, min_scale |-> min_scale, max_scale |-> max_scale,
      metrics |-> metrics ]

\* user.functions.all()
functions_of(user, functions_) ==
    { functions_[f] : f \in {x \in FunctionIds :
                               functions_[x] # None /\ functions_[x].user = user} }

RECURSIVE SumMinScale(_)
SumMinScale(rows) ==
    IF rows = {} THEN 0
    ELSE LET row == CHOOSE x \in rows : TRUE
         IN  row.min_scale + SumMinScale(rows \ {row})

\* _get_current_usage(): total_memory in MiB (536870912 bytes are 512 MiB)
get_current_usage(user, functions_) ==
    IF user = NoUser THEN [functions_count |-> 0]
    ELSE [ functions_count |-> Cardinality(functions_of(user, functions_)),
           total_cpu |-> SumMinScale(functions_of(user, functions_)) * 1000,
           total_memory |-> SumMinScale(functions_of(user, functions_)) * 512 ]

\* lines 308-321 with the else branch left out: the default limits whatever
\* the plan
default_plan_limits(tariff_plan) ==
    [ max_functions |-> 10, max_cpu_per_function |-> 2000,
      max_memory_per_function |-> 2048, max_scale |-> 10 ]

\* lines 308-321: the limits of the resolved plan, or the defaults
plan_limits(tariff_plan) ==
    IF tariff_plan = None
    THEN [ max_functions |-> 10, max_cpu_per_function |-> 2000,
           max_memory_per_function |-> 2048, max_scale |-> 10 ]
    ELSE [ max_functions |-> tariff_plan.max_functions,
           max_cpu_per_function |-> tariff_plan.max_cpu_per_function,
           max_memory_per_function |-> tariff_plan.max_memory_per_function,
           max_scale |-> tariff_plan.max_scale ]

\* lines 323-338: the dict returned, from the limits and the usage
limits_check(function_data, limits, current_usage) ==
    LET checks ==
          [ functions_limit |-> current_usage.functions_count < limits.max_functions,
            cpu_limit |-> Get(function_data, "cpu_request", 0) <= limits.max_cpu_per_function,
            memory_limit |-> Get(function_data, "memory_request", 0)
                                <= limits.max_memory_per_function,
            scale_limit |-> Get(function_data, "max_scale", 0) <= limits.max_scale ]
    IN  [ allowed |-> \A k \in DOMAIN checks : checks[k],
          checks |-> checks,
          limits |-> limits,
          current_usage |-> current_usage ]

\* check_plan_limits(function_data) of the calculator calc_: the dict returned,
\* the plan the calculator holds afterwards and the plan table afterwards
\* (lines 304-305 resolve the plan again when the calculator holds none)
check_plan_limits(calc_, function_data, plans_, subs_, functions_, fail) ==
    LET r == IF calc_.tariff_plan = None
             THEN get_user_tariff_plan(calc_.user, plans_, subs_, fail)
             ELSE [tariff_plan |-> calc_.tariff_plan, plans |-> plans_]
    IN  [ result |-> limits_check(function_data, plan_limits(r.tariff_plan),
                                  get_current_usage(calc_.user, functions_)),
          tariff_plan |-> r.tariff_plan,
          plans |-> r.plans ]

-----------------------------------------------------------------------------
(* SimpleMetricsManager (billing/metrics_manager.py) and the Config helpers   *)
(* it uses (faas_billing/config.py)                                           *)

COST_CALCULATION_CACHE_TIMEOUT == 120
DEFAULT_CPU_REQUEST_PER_POD == 1000
DEFAULT_MEMORY_REQUEST_PER_POD == 536870912
DEFAULT_EFFICIENCY_PERCENT == 80
DEFAULT_COLD_START_COUNT == 0

\* a stored metric that Decimal(str(value)) cannot parse (e.g. the string "n/a")
NotANumber == 0 - 888888

\* User.id: the primary keys of the tenants
user_id(user) == IF user = "u1" THEN 1 ELSE 11

\* str(n) for n >= 0, as a sequence of characters
RECURSIVE Digits(_)
Digits(n) ==
    LET char == <<"0", "1", "2", "3", "4", "5", "6", "7", "8", "9">>[(n % 10) + 1]
    IN  IF n < 10 THEN <<char>> ELSE Append(Digits(n \div 10), char)

\* Config.get_cache_key_function_cost: "function_cost_{function_id}_{user_id}"
get_cache_key_function_cost(function_id, user_id_) ==
    <<"function_cost_">> \o Digits(function_id) \o <<"_">> \o Digits(user_id_)

\* Config.get_periods(): PERIOD_MINUTE, PERIOD_HOUR, PERIOD_DAY, PERIOD_MONTH
get_periods ==
    [ minute |-> Decimal(1667, 5), hour |-> RInt(1), day |-> RInt(24), month |-> RInt(720) ]

\* Config.get_default_function_metrics(function): Function has no
\* memory_request attribute, so getattr gives the default
get_default_function_metrics(function) ==
    [ total_cpu_request |-> function.min_scale * DEFAULT_CPU_REQUEST_PER_POD,
      total_memory_request |-> DEFAULT_MEMORY_REQUEST_PER_POD,
      overall_efficiency |-> DEFAULT_EFFICIENCY_PERCENT,
      cold_start_count |-> DEFAULT_COLD_START_COUNT ]

\* lines 26-28 without the test of line 27: every default is written
metrics_overwritten_by_defaults(function) ==
    LET d == get_default_function_metrics(function)
    IN  [ k \in DOMAIN d \cup DOMAIN function.metrics |->
            IF k \in DOMAIN d THEN d[k] ELSE function.metrics[k] ]

\* lines 22-28: the stored metrics, with the defaults for the missing keys
metrics_with_defaults(function) ==
    LET d == get_default_function_metrics(function)
    IN  [ k \in DOMAIN d \cup DOMAIN function.metrics |->
            IF k \in DOMAIN function.metrics THEN function.metrics[k] ELSE d[k] ]

\* Decimal(str(value)) raises InvalidOperation for one of the values that
\* calculate_function_cost parses
Malformed(function_metrics_) ==
    \E k \in {"total_cpu_request", "total_memory_request", "overall_efficiency"} :
        k \in DOMAIN function_metrics_ /\ function_metrics_[k] = NotANumber

\* lines 39-45: the five amounts kept of a breakdown b
cost_summary(b) ==
    [ total_cost |-> b.total_cost, cpu_cost |-> b.cpu_cost, memory_cost |-> b.memory_cost,
      cold_start_cost |-> b.cold_start_cost, platform_fee |-> b.platform_fee ]

\* lines 33-45: the per-period cost set
period_costs(tariff_plan, function_metrics_) ==
    [ p \in DOMAIN get_periods |->
        cost_summary(function_cost(tariff_plan, function_metrics_, get_periods[p], None)) ]

\* float(x) of a Decimal with four places: the double nearest to x, named by x
\* (distinct amounts of this size give distinct doubles)
Float(x) == [float |-> x]

\* timezone.now().isoformat()
isoformat(now_) == [isoformat |-> now_]

\* lines 49-54 storing only the totals: detailed_costs holds the floats
cache_entry_of_totals(costs, function_metrics_, now_) ==
    [ costs |-> [p \in DOMAIN costs |-> Float(costs[p].total_cost)],
      detailed_costs |-> [p \in DOMAIN costs |-> Float(costs[p].total_cost)],
      metrics_used |-> function_metrics_,
      updated_at |-> isoformat(now_) ]

\* lines 49-54: the value handed to cache.set
cache_entry(costs, function_metrics_, now_) ==
    [ costs |-> [p \in DOMAIN costs |-> Float(costs[p].total_cost)],
      detailed_costs |-> costs,
      metrics_used |-> function_metrics_,
      updated_at |-> isoformat(now_) ]

\* cache.set(key, value, timeout)
cache_set(cache_, key, value, timeout, now_) ==
    [ k \in DOMAIN cache_ \cup {key} |->
        IF k = key THEN [value |-> value, expires |-> now_ + timeout] ELSE cache_[k] ]

\* cache.get(key) without the expiry test
cache_peek(cache_, key, now_) ==
    IF key \in DOMAIN cache_ THEN cache_[key].value ELSE None

\* cache.get(key): None for a missing or expired entry
cache_get(cache_, key, now_) ==
    IF key \in DOMAIN cache_ /\ now_ < cache_[key].expires THEN cache_[key].value ELSE None

\* cache.delete(key)
cache_delete(cache_, key) == [k \in DOMAIN cache_ \ {key} |-> cache_[k]]

\* what a call hands back: the per-period set (costs), whether an exception
\* left the call, and the tables and the cache afterwards
Outcome(raised, costs, plans_, configs_, cache_) ==
    [ raised |-> raised, costs |-> costs, plans |-> plans_, configs |-> configs_,
      cache |-> cache_ ]

\* lines 47-56: the computed costs are stored under the key and returned
store_and_return(costs, m, key, plans_, configs_, cache_, now_) ==
    Outcome(FALSE, costs, plans_, configs_,
            cache_set(cache_, key, cache_entry(costs, m, now_),
                      COST_CALCULATION_CACHE_TIMEOUT, now_))

\* lines 31-56 with a cache.set that writes the entry before it raises
compute_and_store_partly(tariff_plan, m, function, user, fault, plans_, configs_, cache_, now_) ==
    IF Malformed(m)
    THEN Outcome(TRUE, None, plans_, configs_, cache_)
    ELSE IF fault = "cache"
    THEN Outcome(TRUE, None, plans_, configs_,
                 cache_set(cache_, get_cache_key_function_cost(function.id, user_id(user)),
                           cache_entry(period_costs(tariff_plan, m), m, now_),
                           COST_CALCULATION_CACHE_TIMEOUT, now_))
    ELSE store_and_return(period_costs(tariff_plan, m), m,
                          get_cache_key_function_cost(function.id, user_id(user)),
                          plans_, configs_, cache_, now_)

\* lines 31-56 for the calculator's plan and the metrics m: Decimal(str(..))
\* raises on a malformed metric, and fault "cache" makes cache.set raise
compute_and_store(tariff_plan, m, function, user, fault, plans_, configs_, cache_, now_) ==
    IF Malformed(m) \/ fault = "cache"
    THEN Outcome(TRUE, None, plans_, configs_, cache_)
    ELSE store_and_return(period_costs(tariff_plan, m), m,
                          get_cache_key_function_cost(function.id, user_id(user)),
                          plans_, configs_, cache_, now_)

\* lines 19-56, the body of the try block; calculate_function_cost resolves
\* the plan again when the calculator holds none (billing_calculator.py:156)
cost_now_body(function, user, fault, plans_, subs_, configs_, cache_, now_) ==
    LET c == billing_calculator_init(user, fault, plans_, subs_, configs_)
        r == IF c.calc.tariff_plan = None
             THEN get_user_tariff_plan(user, c.plans, subs_, fault = "tariff_lookup")
             ELSE [tariff_plan |-> c.calc.tariff_plan, plans |-> c.plans]
    IN  IF c.raised
        THEN Outcome(TRUE, None, plans_, configs_, cache_)
        ELSE compute_and_store(r.tariff_plan, metrics_with_defaults(function), function,
                               user, fault, r.plans, c.configs, cache_, now_)

\* calculate_function_cost_now without the except clause of lines 58-60
cost_now_without_except(function, user, fault, plans_, subs_, configs_, cache_, now_) ==
    cost_now_body(function, user, fault, plans_, subs_, configs_, cache_, now_)

\* lines 58-60: the exception of the body b is logged and None is returned
log_and_return_none(b) == Outcome(FALSE, b.costs, b.plans, b.configs, b.cache)

\* calculate_function_cost_now(function, user)
calculate_function_cost_now(function, user, fault, plans_, subs_, configs_, cache_, now_) ==
    log_and_return_none(cost_now_body(function, user, fault, plans_, subs_, configs_,
                                      cache_, now_))

\* get_cached_costs(function, user): cache.get is not guarded
get_cached_costs(function, user, fault, cache_, now_) ==
    IF fault = "cache" THEN [raised |-> TRUE, value |-> None]
    ELSE [ raised |-> FALSE,
           value |-> cache_get(cache_, get_cache_key_function_cost(function.id, user_id(user)),
                               now_) ]

\* clear_cost_cache(function, user)
clear_cost_cache(function, user, cache_) ==
    cache_delete(cache_, get_cache_key_function_cost(function.id, user_id(user)))

-----------------------------------------------------------------------------
(* Bounds of the model *)

MaxTime == 2            \* days that pass
MaxCalls == 2           \* calculate_function_cost calls recorded per calculator
MaxColdStarts == 3      \* cold start counts -1 .. MaxColdStarts (and 10)
MaxLoadStep == 6        \* cluster loads -25, 0, 25, .. 25 * MaxLoadStep (and 500)
MaxEfficiencyStep == 16 \* efficiencies -10, 0, 10, .. 10 * MaxEfficiencyStep (and 1000)

\* timedelta(days=30)
SubscriptionDays == 30

-----------------------------------------------------------------------------
(* SubscriptionManager (tarif_plan/subscription_manager.py) over the          *)
(* UserSubscription table kept as a set of rows                               *)

\* end_date IS NULL (the column is nullable)
NullDate == 0 - 777777

\* a row of the table: id is the primary key, user the one-to-one column,
\* tariff_plan the foreign key (the plan's tier)
SubscriptionRow(id, user, s) ==
    [ id |-> id, user |-> user, tariff_plan |-> s.tariff_plan, status |-> s.status,
      start_date |-> s.start_date, end_date |-> s.end_date, auto_renew |-> s.auto_renew ]

\* UserSubscription.objects.filter(user=user)
subscriptions_of(user, rows) == { r \in rows : r.user = user }

\* UserSubscription.objects.filter(user=user, status=ACTIVE)
active_subscriptions_of(user, rows) ==
    { r \in subscriptions_of(user, rows) : r.status = ACTIVE }

\* objects.get(...) over the rows matched: the row, None for DoesNotExist
\* (both callers turn it into None), or MultipleObjectsReturned raised
objects_get(matched) ==
    IF matched = {} THEN [raised |-> FALSE, row |-> None]
    ELSE IF Cardinality(matched) = 1
    THEN [raised |-> FALSE, row |-> CHOOSE r \in matched : TRUE]
    ELSE [raised |-> TRUE, row |-> None]

\* get_active_subscription(user)
get_active_subscription(user, rows) == objects_get(active_subscriptions_of(user, rows))

\* the primary key the database gives the next row
next_id(rows) == Cardinality(rows) + 1

\* INSERT with the one-to-one column left without its unique constraint
insert_without_unique_user(rows, user, s) ==
    [raised |-> FALSE, rows |-> rows \cup {SubscriptionRow(next_id(rows), user, s)}]

\* INSERT into user_subscriptions: the one-to-one column user is unique, so
\* the insert raises IntegrityError when the user has a row
insert_subscription(rows, user, s) ==
    IF subscriptions_of(user, rows) # {}
    THEN [raised |-> TRUE, rows |-> rows]
    ELSE [raised |-> FALSE, rows |-> rows \cup {SubscriptionRow(next_id(rows), user, s)}]

\* subscription.save() of an instance loaded earlier: UPDATE ... WHERE id = pk
\* writes every field of the instance
save_subscription(rows, instance) ==
    { r \in rows : r.id # instance.id } \cup {instance}

\* the field values create_subscription gives a subscription
new_subscription(tariff_plan, now_) ==
    UserSubscription(tariff_plan.tier, ACTIVE, now_, now_ + SubscriptionDays, TRUE)

\* lines 53-59: the existing row is rewritten
renew_subscription(rows, row, tariff_plan, now_) ==
    save_subscription(rows, SubscriptionRow(row.id, row.user, new_subscription(tariff_plan, now_)))

\* create_subscription(user, tariff_plan): the table afterwards
create_subscription(user, tariff_plan, rows, now_) ==
    LET found == objects_get(subscriptions_of(user, rows))
    IN  IF found.raised THEN [raised |-> TRUE, rows |-> rows]
        ELSE IF found.row = None
        THEN insert_subscription(rows, user, new_subscription(tariff_plan, now_))
        ELSE [raised |-> FALSE, rows |-> renew_subscription(rows, found.row, tariff_plan, now_)]

\* plan_order.get(tier, 0)
plan_order(tier) ==
    CASE tier = STARTER -> 1
      [] tier = PROFESSIONAL -> 2
      [] tier = ENTERPRISE -> 3
      [] OTHER -> 0

\* _can_upgrade with >= in place of >
can_upgrade_or_stay(current_tier, new_tier) == plan_order(new_tier) >= plan_order(current_tier)

\* _can_upgrade(current_plan, new_plan)
can_upgrade(current_tier, new_tier) == plan_order(new_tier) > plan_order(current_tier)

\* lines 107-110: the active subscription moves to the new plan
upgraded_subscription(row, new_tariff_plan, now_) ==
    [row EXCEPT !.tariff_plan = new_tariff_plan.tier, !.start_date = now_,
                !.end_date = now_ + SubscriptionDays]

\* upgrade_plan with the tier check applied to every subscription row
upgrade_plan_checking_any_status(user, new_tariff_plan, rows, now_) ==
    LET current == objects_get(subscriptions_of(user, rows))
    IN  IF current.raised THEN [ret |-> FALSE, rows |-> rows]
        ELSE IF current.row = None
        THEN LET c == create_subscription(user, new_tariff_plan, rows, now_)
             IN  [ret |-> ~c.raised, rows |-> c.rows]
        ELSE IF ~can_upgrade(current.row.tariff_plan, new_tariff_plan.tier)
        THEN [ret |-> FALSE, rows |-> rows]
        ELSE [ret |-> TRUE,
              rows |-> renew_subscription(rows, current.row, new_tariff_plan, now_)]

\* upgrade_plan(user, new_tariff_plan): the value returned and the table afterwards
upgrade_plan(user, new_tariff_plan, rows, now_) ==
    LET current == get_active_subscription(user, rows)
    IN  IF current.raised THEN [ret |-> FALSE, rows |-> rows]
        ELSE IF current.row = None
        THEN LET c == create_subscription(user, new_tariff_plan, rows, now_)
             IN  [ret |-> ~c.raised, rows |-> c.rows]
        ELSE IF ~can_upgrade(current.row.tariff_plan, new_tariff_plan.tier)
        THEN [ret |-> FALSE, rows |-> rows]
        ELSE [ret |-> TRUE,
              rows |-> save_subscription(rows,
                          upgraded_subscription(current.row, new_tariff_plan, now_))]

\* cancel_subscription(user, immediate)
cancel_subscription(user, immediate, rows) ==
    LET current == get_active_subscription(user, rows)
    IN  IF current.raised THEN [raised |-> TRUE, ret |-> None, rows |-> rows]
        ELSE IF current.row = None THEN [raised |-> FALSE, ret |-> FALSE, rows |-> rows]
        ELSE [raised |-> FALSE, ret |-> TRUE,
              rows |-> save_subscription(rows,
                          IF immediate
                          THEN [current.row EXCEPT !.status = CANCELLED, !.auto_renew = FALSE]
                          ELSE [current.row EXCEPT !.auto_renew = FALSE])]

\* the sweep with <= in place of <
expired_or_ending_subscriptions(rows, now_) ==
    { r \in rows : r.status = ACTIVE /\ r.end_date # NullDate /\ r.end_date <= now_ }

\* filter(end_date__lt=now, status=ACTIVE): a null end_date matches no comparison
expired_subscriptions(rows, now_) ==
    { r \in rows : r.status = ACTIVE /\ r.end_date # NullDate /\ r.end_date < now_ }

\* lines 195-213 for one subscription of the sweep
swept(subscription, now_) ==
    IF subscription.auto_renew
    THEN [subscription EXCEPT !.end_date = now_ + SubscriptionDays]
    ELSE [subscription EXCEPT !.status = EXPIRED]

\* check_expired_subscriptions(): the table afterwards
check_expired_subscriptions(rows, now_) ==
    LET expired == expired_subscriptions(rows, now_)
    IN  (rows \ expired) \cup { swept(r, now_) : r \in expired }

-----------------------------------------------------------------------------
(* Values the variables take while a specification does not use them *)

NoPlans == [t \in PlanTier |-> None]
NoSubs == [u \in Users |-> None]
SeededPlans == [t \in PlanTier |-> create_default_plans(t)]
EmptyDict == [k \in {} |-> 0]
NoOp == [name |-> "none"]
NoFunctions == [f \in FunctionIds |-> None]

ManagerIdle ==
    /\ functions = NoFunctions
    /\ cache = EmptyDict
    /\ stored = EmptyDict
    /\ procs = EmptyDict
    /\ billing_periods = {}
    /\ user_subscriptions = {}

StoreIdle ==
    /\ plans = SeededPlans
    /\ subs = NoSubs
    /\ configs = 1
    /\ now = 0
    /\ calc = None
    /\ pre = None

-----------------------------------------------------------------------------
(* SpecUnit: direct calls of the two pure pricing functions *)

ColdStartCounts == (-1 .. MaxColdStarts) \cup {10}
ClusterLoads == { 25 * k : k \in -1 .. MaxLoadStep } \cup {500}
ClusterMetrics ==
    {None, EmptyDict, [pod_count |-> 3]} \cup { [average_load_percent |-> l] : l \in ClusterLoads }
ColdStartPenalties == {Decimal(5, 3), Decimal(1, 2), Decimal(125, 6)}

Efficiencies == { RInt(10 * k) : k \in -1 .. MaxEfficiencyStep } \cup {RInt(1000), Decimal(7692, 2)}
\* DecimalField(max_digits=3, decimal_places=2): hundredths
FactorBounds == { Decimal(h, 2) : h \in {10, 50, 70, 85, 100, 130, 200, 999} }

InitUnit ==
    /\ StoreIdle
    /\ op = NoOp
    /\ function_metrics = EmptyDict
    /\ cluster_metrics = None
    /\ calls = <<>>
    /\ ret = None
    /\ ManagerIdle

CallEfficiencyFactor(efficiency, min_efficiency, max_efficiency) ==
    /\ ret = None
    /\ RLe(min_efficiency, max_efficiency)
    /\ ret' = [ fn |-> "calculate_efficiency_factor",
                efficiency |-> efficiency,
                min_efficiency |-> min_efficiency,
                max_efficiency |-> max_efficiency,
                value |-> calculate_efficiency_factor(efficiency, min_efficiency,
                                                      max_efficiency) ]
    /\ UNCHANGED <<storeVars, inputVars, op, calls, managerVars>>

CallColdStartCost(cold_start_count, cluster_metrics_, cold_start_penalty) ==
    /\ ret = None
    /\ ret' = [ fn |-> "calculate_cold_start_cost",
                cold_start_count |-> cold_start_count,
                cluster_metrics |-> cluster_metrics_,
                cold_start_penalty |-> cold_start_penalty,
                value |-> calculate_cold_start_cost(cold_start_count, cluster_metrics_,
                                                    cold_start_penalty) ]
    /\ UNCHANGED <<storeVars, inputVars, op, calls, managerVars>>

NextUnit ==
    \/ \E e \in Efficiencies, mn \in FactorBounds, mx \in FactorBounds :
        CallEfficiencyFactor(e, mn, mx)
    \/ \E c \in ColdStartCounts, m \in ClusterMetrics, p \in ColdStartPenalties :
        CallColdStartCost(c, m, p)

SpecUnit == InitUnit /\ [][NextUnit]_vars

-----------------------------------------------------------------------------
(* Properties of SpecUnit *)

IsCall(fn) == ret # None /\ ret.fn = fn

\* C1: for every efficiency (zero, negative and above 100 included) and every
\* pair of bounds with min_efficiency_factor <= max_efficiency_factor, the
\* factor calculate_efficiency_factor returns, rounded to 3 places, lies within
\* [min_efficiency_factor, max_efficiency_factor] inclusive.
EfficiencyFactorWithinBounds ==
    IsCall("calculate_efficiency_factor") =>
        /\ RLe(ret.min_efficiency, ret.value)
        /\ RLe(ret.value, ret.max_efficiency)

\* efficiency 90 under the default bounds: 100/90 = 1.1111.. is rounded to 1.111,
\* strictly inside [0.70, 1.30]
EfficiencyFactorRounded ==
    /\ IsCall("calculate_efficiency_factor")
    /\ ret.efficiency = RInt(90)
    /\ ret.min_efficiency = Decimal(70, 2)
    /\ ret.max_efficiency = Decimal(130, 2)
    /\ ret.value = Decimal(1111, 3)

\* the load factor in hundredths, restated: 1 + (load - 50)/100 clamped to
\* [0.8, 1.5]
ClampedLoadHundredths(load) ==
    IF load + 50 < 80 THEN 80 ELSE IF load + 50 > 150 THEN 150 ELSE load + 50

\* C7: calculate_cold_start_cost returns 0 for cold_start_count <= 0; otherwise
\* count x penalty x load_factor, with load_factor 1 when no cluster load is
\* supplied and clamp(1 + (load - 50)/100, 0.8, 1.5) when it is: 1.0 at load 50,
\* 0.8 at load 0, 1.5 at loads 100 and 500; 10 cold starts at penalty 0.005 cost
\* 0.0500 without a load and 0.0750 at load 100.
ColdStartCostFormula ==
    IsCall("calculate_cold_start_cost") =>
        LET count == ret.cold_start_count
            penalty == ret.cold_start_penalty
            m == ret.cluster_metrics
            supplied == m # None /\ "average_load_percent" \in DOMAIN m
            load == m.average_load_percent
            plain == Rat(count * penalty[1], penalty[2])
        IN  /\ count <= 0 => ret.value = Zero
            /\ count > 0 /\ ~supplied => ret.value = plain
            /\ count > 0 /\ supplied =>
                /\ ret.value = Rat(count * penalty[1] * ClampedLoadHundredths(load),
                                   penalty[2] * 100)
                /\ load = 50 => ret.value = plain
                /\ load = 0 => ret.value = RMul(plain, Decimal(8, 1))
                /\ load \in {100, 500} => ret.value = RMul(plain, Decimal(15, 1))
            /\ count = 10 /\ penalty = Decimal(5, 3) =>
                /\ ~supplied => ret.value = Decimal(500, 4)
                /\ supplied /\ load = 100 => ret.value = Decimal(750, 4)

\* scenario D: 10 cold starts at penalty 0.005 under cluster load 100 cost 0.0750
ColdStartScenarioD ==
    /\ IsCall("calculate_cold_start_cost")
    /\ ret.cold_start_count = 10
    /\ ret.cold_start_penalty = Decimal(5, 3)
    /\ ret.cluster_metrics = [average_load_percent |-> 100]
    /\ ret.value = Decimal(750, 4)

-----------------------------------------------------------------------------
(* SpecEfficiency: calculate_efficiency_metrics on bounded snapshots *)

\* a key the snapshot lacks, while the snapshots are enumerated
Absent == 0 - 999999
DropAbsent(d) == [k \in {x \in DOMAIN d : d[x] # Absent} |-> d[k]]

UsageValues == {Absent, -50, 0, 50, 150}
RequestValues == {Absent, -100, 0, 100}

EfficiencySnapshots ==
    { DropAbsent([ total_cpu_usage |-> cu, total_cpu_request |-> cr,
                   total_memory_usage |-> mu, total_memory_request |-> mr,
                   pod_count |-> pc, total_pod_uptime_seconds |-> up,
                   max_cold_start_time_seconds |-> cs ]) :
        cu \in UsageValues, cr \in RequestValues,
        mu \in UsageValues, mr \in RequestValues,
        pc \in {Absent, 5, 20}, up \in {Absent, 7200}, cs \in {Absent, 2} }

InitEfficiency ==
    /\ StoreIdle
    /\ op = NoOp
    /\ function_metrics \in EfficiencySnapshots
    /\ cluster_metrics = None
    /\ calls = <<>>
    /\ ret = None
    /\ ManagerIdle

CalculateEfficiencyMetrics ==
    /\ ret = None
    /\ ret' = [ fn |-> "calculate_efficiency_metrics",
                value |-> calculate_efficiency_metrics(function_metrics) ]
    /\ UNCHANGED <<storeVars, inputVars, op, calls, managerVars>>

NextEfficiency == CalculateEfficiencyMetrics

SpecEfficiency == InitEfficiency /\ [][NextEfficiency]_vars

-----------------------------------------------------------------------------
(* Properties of SpecEfficiency *)

\* C2: for every metrics snapshot (any usage and request values, any keys
\* absent) the cpu_efficiency, memory_efficiency and overall_efficiency that
\* calculate_efficiency_metrics returns are each between 0 and 100 inclusive.
EfficienciesWithinPercentRange ==
    IsCall("calculate_efficiency_metrics") =>
        \A k \in {"cpu_efficiency", "memory_efficiency", "overall_efficiency"} :
            RLe(Zero, ret.value[k]) /\ RLe(ret.value[k], RInt(100))

\* the efficiency the specification gives for a usage and a request read
\* from the snapshot with absent fields taken as 0
CappedRatioOrZero(metrics, usage_key, request_key) ==
    LET usage == Get(metrics, usage_key, 0)
        requested == Get(metrics, request_key, 0)
    IN  IF requested > 0
        THEN quantize(RMin(RMul(Rat(usage, requested), RInt(100)), RInt(100)),
                      2, ROUND_HALF_EVEN)
        ELSE Zero

\* C24: calculate_efficiency_metrics computes cpu_efficiency, and likewise
\* memory_efficiency, as min(usage/requested * 100, 100) when requested > 0
\* and as 0 whenever requested <= 0, with absent snapshot fields treated as 0,
\* so a snapshot that lacks the request field yields efficiency 0 whatever
\* the usage
EfficiencyIsCappedRatioOrZero ==
    IsCall("calculate_efficiency_metrics") =>
        /\ ret.value.cpu_efficiency =
              CappedRatioOrZero(function_metrics, "total_cpu_usage", "total_cpu_request")
        /\ ret.value.memory_efficiency =
              CappedRatioOrZero(function_metrics, "total_memory_usage", "total_memory_request")

-----------------------------------------------------------------------------
(* SpecCost: calculate_function_cost on bounded snapshots, for calculators   *)
(* constructed over a seeded store                                           *)

Periods == {Decimal(5, 1), RInt(1), RInt(2)}

\* every subset of the four keys is absent from some snapshot, the empty
\* snapshot included; one snapshot holds a negative CPU request
CostSnapshots ==
    { DropAbsent([ total_cpu_request |-> c, total_memory_request |-> m,
                   cold_start_count |-> k, overall_efficiency |-> e ]) :
        c \in {Absent, 20, 250, 1000},
        m \in {Absent, 536870912, BytesPerGB},
        k \in {Absent, 10},
        e \in {0, 50, 100} }
    \cup
    { DropAbsent([ total_cpu_request |-> c, total_memory_request |-> m,
                   cold_start_count |-> k ]) :
        c \in {Absent, 250}, m \in {Absent, BytesPerGB}, k \in {Absent, 10} }
    \cup
    { [total_cpu_request |-> -250, cold_start_count |-> 10] }

\* the stores the calculators are constructed over: the seeded plans, with u1
\* subscribed to none, to the professional plan, or to an enterprise plan that
\* was re-priced
InitCost ==
    /\ \E ent \in {create_default_plans(ENTERPRISE), CustomPlan},
          tier \in {STARTER, PROFESSIONAL, ENTERPRISE},
          fault \in {"none", "tariff_lookup"} :
        LET plans0 == [SeededPlans EXCEPT ![ENTERPRISE] = ent]
            subs0 == [NoSubs EXCEPT !["u1"] =
                        IF tier = STARTER THEN None
                        ELSE UserSubscription(tier, ACTIVE, 0, SubscriptionDays, TRUE)]
            c == billing_calculator_init("u1", fault, plans0, subs0, 1)
        IN  /\ ent = CustomPlan <=> tier = ENTERPRISE
            /\ plans = c.plans
            /\ subs = subs0
            /\ configs = c.configs
            /\ calc = c.calc
            /\ pre = [plans |-> plans0, subs |-> subs0, configs |-> 1, now |-> 0]
            /\ op = [name |-> "BillingCalculator", user |-> "u1", fault |-> fault,
                     raised |-> c.raised]
    /\ now = 0
    /\ function_metrics \in CostSnapshots
    /\ cluster_metrics \in {None, [average_load_percent |-> 100]}
    /\ calls = <<>>
    /\ ret = None
    /\ ManagerIdle

\* calculate_function_cost(function_metrics, period_hours, cluster_metrics):
\* lines 156-157 resolve the plan again when the calculator holds none
CalculateFunctionCost(period_hours, fail) ==
    /\ calc # None
    /\ Len(calls) < MaxCalls
    /\ fail => calc.tariff_plan = None
    /\ LET r == IF calc.tariff_plan = None
                THEN get_user_tariff_plan(calc.user, plans, subs, fail)
                ELSE [tariff_plan |-> calc.tariff_plan, plans |-> plans]
       IN  /\ calc' = [calc EXCEPT !.tariff_plan = r.tariff_plan]
           /\ plans' = r.plans
           /\ calls' = Append(calls,
                 [ period_hours |-> period_hours,
                   tariff_plan |-> r.tariff_plan,
                   breakdown |-> function_cost(r.tariff_plan, function_metrics,
                                               period_hours, cluster_metrics) ])
    /\ op' = [name |-> "calculate_function_cost", fail |-> fail]
    /\ pre' = [plans |-> plans, subs |-> subs, configs |-> configs, now |-> now]
    /\ UNCHANGED <<subs, configs, now, inputVars, ret, managerVars>>

NextCost == \E p \in Periods, fail \in BOOLEAN : CalculateFunctionCost(p, fail)

SpecCost == InitCost /\ [][NextCost]_vars

-----------------------------------------------------------------------------
(* Properties of SpecCost *)

Calls == 1 .. Len(calls)

\* C3: in every breakdown the reported total_cost equals the reported
\* final_cost plus the reported fixed_plan_cost.
TotalIsFinalPlusFixed ==
    \A i \in Calls :
        LET b == calls[i].breakdown
        IN  b.total_cost = RAdd(b.final_cost, b.fixed_plan_cost)

\* C4: in every breakdown the reported platform_fee equals the reported
\* final_cost minus the reported base_cost.
PlatformFeeIsFinalMinusBase ==
    \A i \in Calls :
        LET b == calls[i].breakdown
        IN  b.platform_fee = RSub(b.final_cost, b.base_cost)

\* the pairs of calls of one calculator, over the same snapshot and plan, whose
\* periods are p and 2p
DoubledPeriods ==
    { <<i, j>> \in Calls \X Calls :
        /\ calls[j].period_hours = RMul(RInt(2), calls[i].period_hours)
        /\ calls[j].tariff_plan = calls[i].tariff_plan }

\* C5 as stated: the breakdown for period 2p reports cpu_cost, memory_cost and
\* fixed_plan_cost exactly twice those reported for period p, and the same
\* cold_start_cost.
DoublingPeriodDoublesReportedCosts ==
    \A <<i, j>> \in DoubledPeriods :
        LET a == calls[i].breakdown
            b == calls[j].breakdown
        IN  /\ \A k \in {"cpu_cost", "memory_cost", "fixed_plan_cost"} :
                  b[k] = RMul(RInt(2), a[k])
            /\ b.cold_start_cost = a.cold_start_cost

\* C5, amended: the breakdown for period 2p reports cpu_cost, memory_cost and
\* fixed_plan_cost within 0.0001 (one unit of the 4-decimal rounding) of twice
\* those reported for period p, and exactly the same cold_start_cost.
DoublingPeriodDoublesCostsWithinRounding ==
    \A <<i, j>> \in DoubledPeriods :
        LET a == calls[i].breakdown
            b == calls[j].breakdown
        IN  /\ \A k \in {"cpu_cost", "memory_cost", "fixed_plan_cost"} :
                  /\ RLe(RSub(b[k], RMul(RInt(2), a[k])), Decimal(1, 4))
                  /\ RLe(RSub(RMul(RInt(2), a[k]), b[k]), Decimal(1, 4))
            /\ b.cold_start_cost = a.cold_start_cost

\* 20 millicores with cold starts, priced for 1 hour and then for 2 hours: the
\* reported cpu_cost goes from 0.0000 to 0.0001
DoubledPeriodRoundsApart ==
    \E <<i, j>> \in DoubledPeriods :
        /\ calls[i].period_hours = RInt(1)
        /\ calls[i].breakdown.cpu_cost = Zero
        /\ calls[j].breakdown.cpu_cost = Decimal(1, 4)
        /\ calls[i].breakdown.cold_start_cost # Zero

\* C6: the reported total_cost is the 4-decimal quantization of the unrounded
\* final_cost plus the unrounded (monthly_price / 730) x period_hours: nothing
\* that feeds total_cost is rounded before the sum.
TotalRoundedOnlyAtOutput ==
    \A i \in Calls :
        LET plan == calls[i].tariff_plan
            c == cost_items(plan, function_metrics, calls[i].period_hours, cluster_metrics)
            monthly_price == IF plan = None THEN Zero ELSE plan.monthly_price
            fixed == RMul(RDiv(monthly_price, RInt(HoursInMonth)), calls[i].period_hours)
        IN  calls[i].breakdown.total_cost
              = quantize(RAdd(c.final_cost, fixed), 4, ROUND_HALF_EVEN)

\* a rate of the plan a call resolved, or the fallback constant when it resolved
\* none
RateOf(i, field, fallback) ==
    IF calls[i].tariff_plan = None THEN fallback ELSE calls[i].tariff_plan[field]

Money(x) == quantize(x, 4, ROUND_HALF_EVEN)

\* C8: calculate_function_cost reports cpu_cost = (cpu_request/1000) x period x
\* cpu_rate, memory_cost = (memory_request/2^30) x period x memory_rate,
\* base_cost = (cpu_cost + memory_cost + cold_start_cost) x efficiency_factor
\* and final_cost = base_cost x platform_fee_rate, each quantized to 4 decimals;
\* 1000 millicores, 1 GiB, no cold starts, efficiency 100, fallback rates and
\* 1 hour give cpu_cost 0.0020, memory_cost 0.0010, efficiency_factor 1.000 and
\* fixed_plan_cost 0, and efficiency 50 instead gives efficiency_factor 1.3.
CostFormulas ==
    \A i \in Calls :
        LET b == calls[i].breakdown
            period == calls[i].period_hours
            cpu == RMul(RMul(Rat(Get(function_metrics, "total_cpu_request", 0), 1000), period),
                        RateOf(i, "cpu_rate_per_hour", Decimal(2, 3)))
            memory == RMul(RMul(Rat(Get(function_metrics, "total_memory_request", 0),
                                    BytesPerGB), period),
                           RateOf(i, "memory_rate_per_gb_hour", Decimal(1, 3)))
            cold == calculate_cold_start_cost(Get(function_metrics, "cold_start_count", 0),
                                              cluster_metrics,
                                              RateOf(i, "cold_start_penalty", Decimal(5, 3)))
            base == RMul(RAdd(RAdd(cpu, memory), cold), b.efficiency_factor)
            final == RMul(base, RateOf(i, "platform_fee_rate", Decimal(13, 1)))
            scenario == /\ Get(function_metrics, "total_cpu_request", 0) = 1000
                        /\ Get(function_metrics, "total_memory_request", 0) = BytesPerGB
                        /\ Get(function_metrics, "cold_start_count", 0) = 0
                        /\ calls[i].tariff_plan = None
                        /\ period = RInt(1)
        IN  /\ b.cpu_cost = Money(cpu)
            /\ b.memory_cost = Money(memory)
            /\ b.cold_start_cost = Money(cold)
            /\ b.base_cost = Money(base)
            /\ b.final_cost = Money(final)
            /\ scenario /\ Get(function_metrics, "overall_efficiency", 100) = 100 =>
                /\ b.cpu_cost = Decimal(20, 4)
                /\ b.memory_cost = Decimal(10, 4)
                /\ b.efficiency_factor = Decimal(1000, 3)
                /\ b.fixed_plan_cost = Zero
            /\ scenario /\ Get(function_metrics, "overall_efficiency", 100) = 50 =>
                b.efficiency_factor = Decimal(13, 1)

\* scenario A: 1000 millicores, 1 GiB, no cold starts, efficiency 100, no plan
\* resolved, 1 hour
CostScenarioA ==
    \E i \in Calls :
        /\ function_metrics = [ total_cpu_request |-> 1000, total_memory_request |-> BytesPerGB,
                                overall_efficiency |-> 100 ]
        /\ calls[i].tariff_plan = None
        /\ calls[i].period_hours = RInt(1)
        /\ calls[i].breakdown.cpu_cost = Decimal(20, 4)
        /\ calls[i].breakdown.memory_cost = Decimal(10, 4)
        /\ calls[i].breakdown.base_cost = Decimal(30, 4)
        /\ calls[i].breakdown.final_cost = Decimal(39, 4)

\* C20: for every subset of snapshot keys being absent (the empty snapshot
\* included) calculate_function_cost returns a breakdown and treats each absent
\* quantity as 0: with total_cpu_request, total_memory_request and
\* cold_start_count absent, cpu_cost, memory_cost, cold_start_cost, base_cost
\* and final_cost are all 0.
AbsentQuantitiesCountAsZero ==
    \A i \in Calls :
        /\ "total_cpu_request" \notin DOMAIN function_metrics =>
              /\ calls[i].breakdown.cpu_hours = Zero
              /\ calls[i].breakdown.cpu_cost = Zero
        /\ "total_memory_request" \notin DOMAIN function_metrics =>
              /\ calls[i].breakdown.memory_gb_hours = Zero
              /\ calls[i].breakdown.memory_cost = Zero
        /\ "cold_start_count" \notin DOMAIN function_metrics =>
              /\ calls[i].breakdown.cold_start_count = 0
              /\ calls[i].breakdown.cold_start_cost = Zero
        /\ DOMAIN function_metrics \cap
              {"total_cpu_request", "total_memory_request", "cold_start_count"} = {} =>
              /\ calls[i].breakdown.base_cost = Zero
              /\ calls[i].breakdown.final_cost = Zero
              /\ calls[i].breakdown.platform_fee = Zero
              /\ calls[i].breakdown.total_cost = calls[i].breakdown.fixed_plan_cost

\* the empty snapshot priced for a professional subscriber: nothing but the
\* fixed plan fee
EmptySnapshotCostsTheFixedFee ==
    \E i \in Calls :
        /\ function_metrics = EmptyDict
        /\ calls[i].tariff_plan # None
        /\ calls[i].tariff_plan.tier = PROFESSIONAL
        /\ calls[i].breakdown.final_cost = Zero
        /\ calls[i].breakdown.efficiency_factor = Decimal(1000, 3)
        /\ RLt(Zero, calls[i].breakdown.total_cost)

\* the inputs of call i are in range: no negative CPU request, memory request,
\* cold-start count or period, and a tariff with non-negative rates and price,
\* platform_fee_rate >= 1 and 0 < min_efficiency_factor <= max_efficiency_factor
InputsInRange(i) ==
    LET r == Rates(calls[i].tariff_plan)
    IN  /\ Get(function_metrics, "total_cpu_request", 0) >= 0
        /\ Get(function_metrics, "total_memory_request", 0) >= 0
        /\ Get(function_metrics, "cold_start_count", 0) >= 0
        /\ RLe(Zero, calls[i].period_hours)
        /\ RLe(Zero, r.cpu_rate) /\ RLe(Zero, r.memory_rate)
        /\ RLe(Zero, r.cold_start_penalty)
        /\ calls[i].tariff_plan # None => RLe(Zero, calls[i].tariff_plan.monthly_price)
        /\ RLe(RInt(1), r.platform_fee_rate)
        /\ RLt(Zero, r.min_efficiency) /\ RLe(r.min_efficiency, r.max_efficiency)

\* C26: for every snapshot with non-negative cpu request, memory request and
\* cold-start count, non-negative period_hours, and a tariff with
\* non-negative rates, platform_fee_rate >= 1 and 0 < min_efficiency_factor
\* <= max_efficiency_factor, every cost field of the returned breakdown is
\* >= 0 and base_cost <= final_cost <= total_cost
CostsNonNegativeAndOrdered ==
    \A i \in Calls :
        InputsInRange(i) =>
            LET b == calls[i].breakdown
            IN  /\ \A k \in {"cpu_cost", "memory_cost", "cold_start_cost", "base_cost",
                              "final_cost", "fixed_plan_cost", "total_cost", "platform_fee"} :
                      RLe(Zero, b[k])
                /\ RLe(b.base_cost, b.final_cost)
                /\ RLe(b.final_cost, b.total_cost)

\* a breakdown of a priced plan with base_cost < final_cost < total_cost
CostsStrictlyOrdered ==
    \E i \in Calls :
        /\ InputsInRange(i)
        /\ RLt(Zero, calls[i].breakdown.base_cost)
        /\ RLt(calls[i].breakdown.base_cost, calls[i].breakdown.final_cost)
        /\ RLt(calls[i].breakdown.final_cost, calls[i].breakdown.total_cost)

-----------------------------------------------------------------------------
(* Spec: calculators constructed over the stores the tables can hold         *)

\* a plan row of the tier: absent, as seeded, or seeded and then deactivated
PlanRows(tier) ==
    {None, create_default_plans(tier), [create_default_plans(tier) EXCEPT !.is_active = FALSE]}

\* u1's subscription row: none, or one created SubscriptionDays - 1 days ago
\* (its end_date is day 1) in any status, bound to a plan row that exists
SubscriptionRows(plans_) ==
    {None} \cup
    { UserSubscription(t, s, 1 - SubscriptionDays, 1, TRUE) :
        t \in {x \in PlanTier : plans_[x] # None}, s \in SubscriptionStatus }

Init ==
    /\ plans \in [PlanTier -> UNION {PlanRows(t) : t \in PlanTier}]
    /\ \A t \in PlanTier : plans[t] \in PlanRows(t)
    /\ \E row \in SubscriptionRows(plans) : subs = [NoSubs EXCEPT !["u1"] = row]
    /\ configs \in {0, 1}
    /\ now = 0
    /\ calc = None
    /\ op = NoOp
    /\ pre = None
    /\ function_metrics = EmptyDict
    /\ cluster_metrics = None
    /\ calls = <<>>
    /\ ret = None
    /\ ManagerIdle

\* BillingCalculator(user): a constructor that raises leaves no new object
BillingCalculatorInit(user, fault) ==
    LET c == billing_calculator_init(user, fault, plans, subs, configs)
    IN  /\ calc' = IF c.raised THEN calc ELSE c.calc
        /\ plans' = c.plans
        /\ configs' = c.configs
        /\ op' = [name |-> "BillingCalculator", user |-> user, fault |-> fault,
                  raised |-> c.raised]
        /\ pre' = [plans |-> plans, subs |-> subs, configs |-> configs, now |-> now]
        /\ UNCHANGED <<subs, now, inputVars, calls, ret, managerVars>>

\* a day passes
Tick ==
    /\ now < MaxTime
    /\ now' = now + 1
    /\ UNCHANGED <<plans, subs, configs, calc, op, pre, inputVars, calls, ret, managerVars>>

Next ==
    \/ \E user \in Users \cup {NoUser}, fault \in Faults : BillingCalculatorInit(user, fault)
    \/ Tick

Spec == Init /\ [][Next]_vars

-----------------------------------------------------------------------------
(* Properties of Spec *)

\* a calculator was just constructed for a tenant and no query failed
Resolved ==
    /\ op.name = "BillingCalculator"
    /\ op.user \in Users
    /\ op.fault = "none"
    /\ ~op.raised

\* the tenant's subscription row as the constructor found it
FoundSubscription == pre.subs[op.user]

HadActiveSubscription == FoundSubscription # None /\ FoundSubscription.status = ACTIVE

HadActiveStarter == pre.plans[STARTER] # None /\ pre.plans[STARTER].is_active

\* C9: the resolver returns the plan bound to the tenant's subscription exactly
\* when the subscription's status is ACTIVE, whatever its end_date; for a tenant
\* whose subscription is suspended, cancelled or expired, or who has none, it
\* returns the active STARTER plan instead.
StatusIsTheOnlyGate ==
    Resolved =>
        /\ HadActiveSubscription =>
              calc.tariff_plan = pre.plans[FoundSubscription.tariff_plan]
        /\ ~HadActiveSubscription =>
              /\ HadActiveStarter => calc.tariff_plan = pre.plans[STARTER]
              /\ calc.tariff_plan # None => calc.tariff_plan.tier = STARTER

\* an ACTIVE subscription to the professional plan whose end_date has passed
\* still resolves to the professional plan
ActivePastEndDateResolved ==
    /\ Resolved
    /\ HadActiveSubscription
    /\ FoundSubscription.end_date < pre.now
    /\ FoundSubscription.tariff_plan = PROFESSIONAL
    /\ calc.tariff_plan = pre.plans[PROFESSIONAL]

\* C10: for a tenant with no active subscription, whenever the store holds no
\* active STARTER plan (an inactive one included), the resolver creates a
\* STARTER plan with monthly price 0 and returns it: the result is never null.
StarterPlanBootstrapped ==
    Resolved /\ ~HadActiveSubscription /\ ~HadActiveStarter =>
        /\ calc.tariff_plan # None
        /\ calc.tariff_plan.tier = STARTER
        /\ calc.tariff_plan.monthly_price = Zero
        /\ plans[STARTER] = calc.tariff_plan

\* C11: for every state of the tariff, subscription and billing-config store,
\* a failing lookup included, constructing a BillingCalculator and calling
\* calculate_function_cost completes and returns a breakdown; when no plan is
\* resolved the rates are cpu 0.002, memory 0.001, cold start 0.005, platform
\* fee 1.3, efficiency bounds [0.7, 1.3], and fixed_plan_cost is 0.
ConstructionAndCostAlwaysComplete ==
    op.name = "BillingCalculator" =>
        /\ ~op.raised
        /\ calc.tariff_plan = None =>
              /\ Rates(calc.tariff_plan) =
                    [ cpu_rate |-> Decimal(2, 3), memory_rate |-> Decimal(1, 3),
                      cold_start_penalty |-> Decimal(5, 3),
                      platform_fee_rate |-> Decimal(13, 1),
                      min_efficiency |-> Decimal(7, 1),
                      max_efficiency |-> Decimal(13, 1) ]
              /\ \A p \in Periods :
                    function_cost(calc.tariff_plan, function_metrics, p,
                                  cluster_metrics).fixed_plan_cost = Zero

-----------------------------------------------------------------------------
(* SpecLimits: the plan_limits_check view (a calculator is constructed for   *)
(* the tenant and asked to check a proposed workload) over bounded stores    *)

\* the professional plan with its function limit lowered by an administrator
TightPlan == [create_default_plans(PROFESSIONAL) EXCEPT !.max_functions = 2]

\* the JSON body of the request; memory_request in MiB
FunctionData ==
    { DropAbsent([cpu_request |-> c, memory_request |-> m, max_scale |-> s]) :
        c \in {Absent, 1000, 1001, 4001}, m \in {Absent, 2049}, s \in {Absent, 11} }

InitLimits ==
    /\ plans \in [PlanTier -> UNION {PlanRows(t) : t \in PlanTier} \cup {TightPlan}]
    /\ plans[STARTER] \in PlanRows(STARTER)
    /\ plans[PROFESSIONAL] \in {create_default_plans(PROFESSIONAL), TightPlan}
    /\ plans[ENTERPRISE] \in {None, create_default_plans(ENTERPRISE)}
    /\ \E row \in {None} \cup { UserSubscription(PROFESSIONAL, s, 0, SubscriptionDays, TRUE) :
                                  s \in {ACTIVE, EXPIRED} } :
          subs = [NoSubs EXCEPT !["u1"] = row]
    /\ configs \in {0, 1}
    /\ functions \in [FunctionIds -> {None} \cup { Function(f, u, 1, 5, EmptyDict) :
                                                     f \in FunctionIds, u \in Users }]
    /\ \A f \in FunctionIds : functions[f] # None => functions[f].id = f
    /\ functions[1] # None => functions[1].user = "u1"
    /\ now = 0
    /\ calc = None
    /\ op = NoOp
    /\ pre = None
    /\ function_metrics = EmptyDict
    /\ cluster_metrics = None
    /\ calls = <<>>
    /\ ret = None
    /\ cache = EmptyDict
    /\ stored = EmptyDict
    /\ procs = EmptyDict
    /\ billing_periods = {}
    /\ user_subscriptions = {}

\* plan_limits_check(request) for request.user = user and the JSON body
\* function_data: any exception becomes the 400 response.  One request per
\* behaviour, from every store of InitLimits.
PlanLimitsCheck(user, function_data, fault) ==
    LET c == billing_calculator_init(user, fault, plans, subs, configs)
        k == check_plan_limits(c.calc, function_data, c.plans, subs, functions,
                               fault = "tariff_lookup")
    IN  /\ ret = None
        /\ calc' = IF c.raised THEN calc ELSE [c.calc EXCEPT !.tariff_plan = k.tariff_plan]
        /\ plans' = IF c.raised THEN c.plans ELSE k.plans
        /\ configs' = c.configs
        /\ ret' = IF c.raised
                  THEN [fn |-> "plan_limits_check", status |-> 400]
                  ELSE [fn |-> "plan_limits_check", status |-> 200, value |-> k.result]
        /\ op' = [name |-> "plan_limits_check", user |-> user,
                  function_data |-> function_data, fault |-> fault, raised |-> c.raised]
        /\ pre' = [plans |-> plans, subs |-> subs, configs |-> configs, now |-> now,
                   functions |-> functions]
        /\ UNCHANGED <<subs, now, inputVars, calls, functions, cache, stored, procs, billing_periods, user_subscriptions>>

NextLimits ==
    \E user \in Users \cup {NoUser}, function_data \in FunctionData, fault \in Faults :
        PlanLimitsCheck(user, function_data, fault)

SpecLimits == InitLimits /\ [][NextLimits]_vars

-----------------------------------------------------------------------------
(* Properties of SpecLimits *)

\* a limit check just returned its dict
LimitsChecked == op.name = "plan_limits_check" /\ ~op.raised

\* C12: check_plan_limits returns allowed = true exactly when all four checks
\* (functions_limit, cpu_limit, memory_limit, scale_limit) are true; a proposed
\* workload whose cpu_request exceeds the resolved tariff's
\* max_cpu_per_function yields cpu_limit = false and allowed = false whatever
\* the other three checks give.
AllowedIsAllFourChecks ==
    LimitsChecked =>
        /\ DOMAIN ret.value.checks =
              {"functions_limit", "cpu_limit", "memory_limit", "scale_limit"}
        /\ ret.value.allowed <=>
              /\ ret.value.checks.functions_limit
              /\ ret.value.checks.cpu_limit
              /\ ret.value.checks.memory_limit
              /\ ret.value.checks.scale_limit
        /\ ( /\ calc.tariff_plan # None
             /\ Get(op.function_data, "cpu_request", 0) > calc.tariff_plan.max_cpu_per_function )
           => ~ret.value.checks.cpu_limit /\ ~ret.value.allowed

\* a cpu request of 1001 against the starter plan's 1000 is refused although
\* the other three checks pass
CpuAloneRefuses ==
    /\ LimitsChecked
    /\ calc.tariff_plan # None
    /\ calc.tariff_plan.tier = STARTER
    /\ calc.tariff_plan.max_cpu_per_function = 1000
    /\ Get(op.function_data, "cpu_request", 0) = 1001
    /\ ret.value.checks.functions_limit
    /\ ret.value.checks.memory_limit
    /\ ret.value.checks.scale_limit
    /\ ~ret.value.checks.cpu_limit
    /\ ~ret.value.allowed

\* C13: performing a plan-limit check for a tenant (constructing the calculator
\* and calling check_plan_limits) is read-only: it leaves the tariff plans,
\* billing configs, subscriptions and workloads of the store unchanged, for
\* every store state.
PlanLimitsCheckIsReadOnly ==
    op.name = "plan_limits_check" =>
        /\ plans = pre.plans
        /\ configs = pre.configs
        /\ subs = pre.subs
        /\ functions = pre.functions

-----------------------------------------------------------------------------
(* SpecManager: refreshes, reads and clears of the cost cache by the two     *)
(* tenants, each for a function of their own, while time passes              *)

\* the exception a call let escape
Raised == [raised |-> TRUE]

\* seconds that pass in one step of the clock
TickSeconds == COST_CALCULATION_CACHE_TIMEOUT \div 2

\* JSON stored in Function.metrics
StoredMetrics(f) ==
    IF f = 1
    THEN { [total_cpu_request |-> 250, cold_start_count |-> 10] }
    ELSE { [total_cpu_request |-> NotANumber],
           EmptyDict }

\* function 1 keeps one pod warm and function 11 two
MinScale(f) == IF f = 1 THEN 1 ELSE 2

\* function 1 belongs to u2 (id 11) and function 11 to u1 (id 1)
Owner(f) == IF f = 1 THEN "u2" ELSE "u1"

CacheFaults == {"none", "cache"}

\* a fresh database or the seeded one; no tenant has subscribed yet, so every
\* calculator resolves the starter plan (or none)
InitManager ==
    /\ \/ /\ plans = NoPlans
          /\ configs = 0
       \/ /\ plans = SeededPlans
          /\ configs = 1
    /\ subs = NoSubs
    /\ functions \in [FunctionIds -> UNION { { Function(f, Owner(f), MinScale(f), 5, m) :
                                                 m \in StoredMetrics(f) } : f \in FunctionIds }]
    /\ \A f \in FunctionIds : functions[f].id = f
    /\ now = 0
    /\ calc = None
    /\ op = NoOp
    /\ pre = None
    /\ function_metrics = EmptyDict
    /\ cluster_metrics = None
    /\ calls = <<>>
    /\ ret = None
    /\ cache = EmptyDict
    /\ stored = EmptyDict
    /\ procs = EmptyDict
    /\ billing_periods = {}
    /\ user_subscriptions = {}

\* SimpleMetricsManager.calculate_function_cost_now(function, user)
RefreshNow(f, user, fault) ==
    \E o \in { calculate_function_cost_now(functions[f], user, fault, plans, subs, configs,
                                            cache, now) } :
    LET key == get_cache_key_function_cost(f, user_id(user))
    IN  /\ plans' = o.plans
        /\ configs' = o.configs
        /\ cache' = o.cache
        /\ ret' = IF o.raised THEN Raised ELSE o.costs
        /\ stored' = IF o.raised \/ o.costs = None THEN stored
                     ELSE [ k \in DOMAIN stored \cup {key} |->
                              IF k = key
                              THEN [ at |-> now,
                                     value |-> cache_entry(o.costs,
                                                   metrics_with_defaults(functions[f]), now) ]
                              ELSE stored[k] ]
        /\ op' = [name |-> "calculate_function_cost_now", function |-> f, user |-> user,
                  fault |-> fault, raised |-> o.raised]
        /\ pre' = None
        /\ UNCHANGED <<subs, now, calc, inputVars, calls, functions, procs, billing_periods, user_subscriptions>>

\* SimpleMetricsManager.get_cached_costs(function, user)
GetCachedCosts(f, user, fault) ==
    LET g == get_cached_costs(functions[f], user, fault, cache, now)
    IN  /\ ret' = IF g.raised THEN Raised ELSE g.value
        /\ op' = [name |-> "get_cached_costs", function |-> f, user |-> user,
                  fault |-> fault, raised |-> g.raised]
        /\ pre' = IF op.name = "calculate_function_cost_now"
                  THEN [op |-> op, ret |-> ret] ELSE None
        /\ UNCHANGED <<plans, subs, configs, now, calc, inputVars, calls, managerVars>>

\* SimpleMetricsManager.clear_cost_cache(function, user)
ClearCostCache(f, user) ==
    LET key == get_cache_key_function_cost(f, user_id(user))
    IN  /\ cache' = clear_cost_cache(functions[f], user, cache)
        /\ stored' = [k \in DOMAIN stored \ {key} |-> stored[k]]
        /\ ret' = None
        /\ op' = [name |-> "clear_cost_cache", function |-> f, user |-> user]
        /\ pre' = None
        /\ UNCHANGED <<plans, subs, configs, now, calc, inputVars, calls, functions, procs, billing_periods, user_subscriptions>>

\* TickSeconds seconds pass
TickManager ==
    /\ now < MaxTime * TickSeconds
    /\ now' = now + TickSeconds
    /\ op' = [name |-> "tick"]
    /\ pre' = None
    /\ ret' = None
    /\ UNCHANGED <<plans, subs, configs, calc, inputVars, calls, managerVars>>

NextManager ==
    \/ \E f \in FunctionIds, fault \in Faults \cup CacheFaults : RefreshNow(f, Owner(f), fault)
    \/ \E f \in FunctionIds, fault \in CacheFaults : GetCachedCosts(f, Owner(f), fault)
    \/ \E f \in FunctionIds : ClearCostCache(f, Owner(f))
    \/ TickManager

SpecManager == InitManager /\ [][NextManager]_vars

-----------------------------------------------------------------------------
(* Properties of SpecManager *)

Refreshed == op.name = "calculate_function_cost_now"
ReadCache == op.name = "get_cached_costs"

\* the key of the last operation
OpKey == get_cache_key_function_cost(op.function, user_id(op.user))

\* a read that directly follows a successful refresh of the same pair
ReadRightAfterRefresh ==
    /\ ReadCache
    /\ pre # None
    /\ pre.op.function = op.function
    /\ pre.op.user = op.user
    /\ pre.ret # None

\* C14 as stated: a successful calculate_function_cost_now(workload, tenant)
\* followed immediately by get_cached_costs(workload, tenant) returns the
\* identical per-period breakdown set that the refresh returned.
ReadReturnsTheRefreshedSet ==
    ReadRightAfterRefresh => ret = pre.ret

\* C14: a get_cached_costs that directly follows a successful refresh of the
\* same pair and returns a value returns the cache entry, a dict with the keys
\* costs, detailed_costs, metrics_used and updated_at, whose detailed_costs is
\* the identical per-period set the refresh returned.
ReadReturnsEntryHoldingTheRefreshedSet ==
    ReadRightAfterRefresh /\ ~op.raised =>
        /\ DOMAIN ret = {"costs", "detailed_costs", "metrics_used", "updated_at"}
        /\ ret.detailed_costs = pre.ret
        /\ ret.costs = [p \in DOMAIN pre.ret |-> Float(pre.ret[p].total_cost)]

\* the entry read right after a refresh holds the refreshed set and is not
\* that set
EntryReadRightAfterRefresh ==
    /\ ReadRightAfterRefresh
    /\ ~op.raised
    /\ ret.detailed_costs = pre.ret
    /\ ret # pre.ret
    /\ DOMAIN pre.ret = {"minute", "hour", "day", "month"}

\* a refresh stored an entry under the key less than the timeout ago and no
\* clear for the key happened since
FreshlyStored(key) ==
    /\ key \in DOMAIN stored
    /\ now - stored[key].at < COST_CALCULATION_CACHE_TIMEOUT

\* C15: after any sequence of refresh, clear and get operations and time
\* passing, get_cached_costs(workload, tenant) returns an entry only if a
\* refresh for that same key stored it less than the TTL (120 seconds) ago and
\* no clear for that key happened since; otherwise it returns nothing.
\* Refreshes and clears for a different pair never change what is returned for
\* this pair: at every moment each key reads as its own last refresh left it.
ReadsOnlyFreshUnclearedEntries ==
    /\ \A f \in FunctionIds :
          cache_get(cache, get_cache_key_function_cost(f, user_id(Owner(f))), now) =
              IF FreshlyStored(get_cache_key_function_cost(f, user_id(Owner(f))))
              THEN stored[get_cache_key_function_cost(f, user_id(Owner(f)))].value
              ELSE None
    /\ ReadCache /\ ~op.raised =>
          ret = IF FreshlyStored(OpKey) THEN stored[OpKey].value ELSE None

\* a read finds nothing for an entry stored a full timeout ago while the other
\* pair's entry, stored later, is still readable
ExpiredEntryReadsAsNothing ==
    /\ ReadCache /\ ~op.raised
    /\ OpKey \in DOMAIN stored
    /\ now - stored[OpKey].at = COST_CALCULATION_CACHE_TIMEOUT
    /\ ret = None
    /\ \E k \in DOMAIN stored : k # OpKey /\ FreshlyStored(k)

\* C16: calculate_function_cost_now never raises to its caller: for every
\* workload, tenant, stored metrics and store state it either returns the
\* computed per-period cost set or, on any internal failure, returns null.
RefreshNeverRaises ==
    Refreshed =>
        /\ ~op.raised
        /\ ret # Raised
        /\ ret # None =>
              ret = period_costs(None, metrics_with_defaults(functions[op.function]))
        /\ \/ op.fault \in {"config_lookup", "cache"}
           \/ Malformed(metrics_with_defaults(functions[op.function]))
           => ret = None

\* a refresh whose BillingConfig lookup failed returned null
FailedRefreshReturnedNull ==
    /\ Refreshed
    /\ op.fault = "config_lookup"
    /\ ~op.raised
    /\ ret = None

\* C17: when the cache store is unavailable (reads or writes fail) the cost
\* manager degrades to recomputing: get_cached_costs yields nothing rather
\* than an error, and calculate_function_cost_now still returns the freshly
\* computed cost set even though it could not be stored.
CacheFailureDegradesToRecomputing ==
    /\ ReadCache /\ op.fault = "cache" => ~op.raised /\ ret = None
    /\ ( /\ Refreshed
         /\ op.fault = "cache"
         /\ ~Malformed(metrics_with_defaults(functions[op.function])) )
       => ret # None /\ ret # Raised

\* the entry the cache holds under the key of the last operation
OpEntry == cache[OpKey].value

\* C25: calculate_function_cost_now fills from the configured defaults only
\* those snapshot keys that the workload's stored metrics lack (CPU request =
\* min_scale * per-pod millicores, default memory request, default
\* efficiency, cold-start count 0) and never overwrites a key that is
\* present; it then computes and stores exactly one breakdown for each of
\* the four periods minute (0.01667 h), hour (1 h), day (24 h) and month
\* (720 h).  Checked of every refresh that returns a set.
RefreshFillsMissingKeysAndCostsFourPeriods ==
    Refreshed /\ ret # None =>
        LET function == functions[op.function]
            used == OpEntry.metrics_used
            Cost(hours) == cost_summary(function_cost(None, used, hours, None))
        IN  /\ DOMAIN used = DOMAIN function.metrics \cup
                  {"total_cpu_request", "total_memory_request", "overall_efficiency",
                   "cold_start_count"}
            /\ \A k \in DOMAIN function.metrics : used[k] = function.metrics[k]
            /\ "total_cpu_request" \notin DOMAIN function.metrics =>
                  used.total_cpu_request = function.min_scale * DEFAULT_CPU_REQUEST_PER_POD
            /\ "total_memory_request" \notin DOMAIN function.metrics =>
                  used.total_memory_request = DEFAULT_MEMORY_REQUEST_PER_POD
            /\ "overall_efficiency" \notin DOMAIN function.metrics =>
                  used.overall_efficiency = DEFAULT_EFFICIENCY_PERCENT
            /\ "cold_start_count" \notin DOMAIN function.metrics =>
                  used.cold_start_count = DEFAULT_COLD_START_COUNT
            /\ OpEntry.detailed_costs =
                  [ minute |-> Cost(Decimal(1667, 5)), hour |-> Cost(RInt(1)),
                    day |-> Cost(RInt(24)), month |-> Cost(RInt(720)) ]
            /\ ret = OpEntry.detailed_costs

\* a refresh kept the stored CPU request and cold-start count of a function
\* and filled in the memory request and the efficiency it lacked
RefreshKeptStoredKeysAndFilledTheRest ==
    /\ Refreshed /\ ret # None
    /\ functions[op.function].metrics = [total_cpu_request |-> 250, cold_start_count |-> 10]
    /\ OpEntry.metrics_used =
          [ total_cpu_request |-> 250, cold_start_count |-> 10,
            total_memory_request |-> DEFAULT_MEMORY_REQUEST_PER_POD,
            overall_efficiency |-> DEFAULT_EFFICIENCY_PERCENT ]
    /\ DOMAIN ret = {"minute", "hour", "day", "month"}

\* C28: when calculate_function_cost_now fails internally and returns null,
\* the cache entry that existed for that (workload, tenant) key before the
\* call is left exactly as it was: no partial entry is written and the
\* previous entry is not removed (nor is any other key's entry touched)
FailedRefreshLeavesCacheAsItWas ==
    [][ (op'.name = "calculate_function_cost_now" /\ ret' = None) => cache' = cache ]_vars

\* a refresh failed at cache.set while the cache held the entry of an earlier
\* refresh for the same key, and the cache still holds that entry
FailedRefreshOverAnEarlierEntry ==
    /\ Refreshed
    /\ op.fault = "cache"
    /\ ret = None
    /\ OpKey \in DOMAIN stored
    /\ OpKey \in DOMAIN cache
    /\ cache[OpKey].value = stored[OpKey].value
    /\ stored[OpKey].at < now

-----------------------------------------------------------------------------
(* SpecConcurrent: two callers run calculate_function_cost_now for the same  *)
(* function and tenant at once.  Each query and each cache operation is one  *)
(* step; the steps of the two callers interleave in any order.               *)

Callers == {"A", "B"}

\* the function and the tenant both callers refresh
SharedFunction == 1
SharedKey == get_cache_key_function_cost(SharedFunction, user_id(Owner(SharedFunction)))

\* Function.metrics as each caller loaded it before the call
LoadedMetrics == { EmptyDict, [total_cpu_request |-> 250, cold_start_count |-> 10] }

\* a caller about to enter calculate_function_cost_now with its function object
Caller(metrics) ==
    [ pc |-> "config_lookup", config |-> FALSE, tariff_plan |-> None,
      metrics |-> metrics, costs |-> None, ret |-> None ]

InitConcurrent ==
    /\ \/ /\ plans = NoPlans
          /\ configs = 0
       \/ /\ plans = SeededPlans
          /\ configs = 1
    /\ subs = NoSubs
    /\ functions = [f \in FunctionIds |-> Function(f, Owner(f), 1, 5, EmptyDict)]
    /\ procs \in [Callers -> {Caller(m) : m \in LoadedMetrics}]
    /\ now = 0
    /\ calc = None
    /\ op = NoOp
    /\ pre = None
    /\ function_metrics = EmptyDict
    /\ cluster_metrics = None
    /\ calls = <<>>
    /\ ret = None
    /\ cache = EmptyDict
    /\ stored = EmptyDict
    /\ billing_periods = {}
    /\ user_subscriptions = {}

\* the function object a caller holds
FunctionOf(c) == [functions[SharedFunction] EXCEPT !.metrics = procs[c].metrics]

\* billing_calculator.py:97: self.config = config or BillingConfig.objects.first()
ConfigLookup(c) ==
    /\ procs[c].pc = "config_lookup"
    /\ procs' = [procs EXCEPT ![c].config = configs > 0, ![c].pc = "tariff_lookup"]
    /\ op' = [name |-> "ConfigLookup", caller |-> c]
    /\ UNCHANGED <<storeVars, inputVars, calls, ret, functions, cache, stored, billing_periods, user_subscriptions>>

\* billing_calculator.py:118-131: the subscription query and the query for
\* the active starter plan
TariffLookup(c) ==
    /\ procs[c].pc = "tariff_lookup"
    /\ LET user == Owner(SharedFunction)
           found == IF subs[user] # None /\ subs[user].status = ACTIVE
                    THEN plans[subs[user].tariff_plan]
                    ELSE active_starter(plans)
       IN  procs' = [procs EXCEPT
                       ![c].tariff_plan = found,
                       ![c].pc = IF found = None THEN "starter_create"
                                 ELSE IF procs[c].config THEN "compute"
                                 ELSE "config_create"]
    /\ op' = [name |-> "TariffLookup", caller |-> c]
    /\ UNCHANGED <<storeVars, inputVars, calls, ret, functions, cache, stored, billing_periods, user_subscriptions>>

\* billing_calculator.py:133-145: TariffPlan.objects.create; an IntegrityError
\* is caught and the calculator holds no plan
StarterCreate(c) ==
    /\ procs[c].pc = "starter_create"
    /\ LET default_plan == TariffPlan("Starter Plan", STARTER, TRUE, Decimal(0, 2))
       IN  IF can_create_starter(plans)
           THEN /\ plans' = [plans EXCEPT ![STARTER] = default_plan]
                /\ procs' = [procs EXCEPT
                               ![c].tariff_plan = default_plan,
                               ![c].pc = IF procs[c].config THEN "compute"
                                         ELSE "config_create"]
           ELSE /\ plans' = plans
                /\ procs' = [procs EXCEPT
                               ![c].pc = IF procs[c].config THEN "compute"
                                         ELSE "config_create"]
    /\ op' = [name |-> "StarterCreate", caller |-> c]
    /\ UNCHANGED <<subs, configs, now, calc, pre, inputVars, calls, ret, functions,
                   cache, stored, billing_periods, user_subscriptions>>

\* billing_calculator.py:102-106: BillingConfig.objects.create(name="Default
\* Billing Config"); name is unique, so the insert raises IntegrityError when
\* the other caller has inserted the row, and the except clause of
\* calculate_function_cost_now returns None
ConfigCreate(c) ==
    /\ procs[c].pc = "config_create"
    /\ IF configs = 0
       THEN /\ configs' = 1
            /\ procs' = [procs EXCEPT ![c].config = TRUE, ![c].pc = "compute"]
       ELSE /\ configs' = configs
            /\ procs' = [procs EXCEPT ![c].ret = None, ![c].pc = "done"]
    /\ op' = [name |-> "ConfigCreate", caller |-> c]
    /\ UNCHANGED <<plans, subs, now, calc, pre, inputVars, calls, ret, functions,
                   cache, stored, billing_periods, user_subscriptions>>

\* metrics_manager.py:22-45: the costs of the four periods;
\* calculate_function_cost resolves the plan again when the calculator holds
\* none (billing_calculator.py:156)
Compute(c) ==
    /\ procs[c].pc = "compute"
    /\ \E r \in { IF procs[c].tariff_plan = None
                  THEN get_user_tariff_plan(Owner(SharedFunction), plans, subs, FALSE)
                  ELSE [tariff_plan |-> procs[c].tariff_plan, plans |-> plans] } :
          /\ plans' = r.plans
          /\ procs' = [procs EXCEPT
                         ![c].tariff_plan = r.tariff_plan,
                         ![c].costs = period_costs(r.tariff_plan,
                                                   metrics_with_defaults(FunctionOf(c))),
                         ![c].pc = "cache_set"]
    /\ op' = [name |-> "Compute", caller |-> c]
    /\ UNCHANGED <<subs, configs, now, calc, pre, inputVars, calls, ret, functions,
                   cache, stored, billing_periods, user_subscriptions>>

\* metrics_manager.py:48-56: cache.set, then return costs
CacheSet(c) ==
    /\ procs[c].pc = "cache_set"
    /\ cache' = cache_set(cache, SharedKey,
                          cache_entry(procs[c].costs, metrics_with_defaults(FunctionOf(c)), now),
                          COST_CALCULATION_CACHE_TIMEOUT, now)
    /\ stored' = [k \in {SharedKey} |-> [at |-> now, by |-> c]]
    /\ procs' = [procs EXCEPT ![c].ret = procs[c].costs, ![c].pc = "done"]
    /\ op' = [name |-> "CacheSet", caller |-> c]
    /\ UNCHANGED <<storeVars, inputVars, calls, ret, functions, billing_periods, user_subscriptions>>

NextConcurrent ==
    \E c \in Callers :
        \/ ConfigLookup(c)
        \/ TariffLookup(c)
        \/ StarterCreate(c)
        \/ ConfigCreate(c)
        \/ Compute(c)
        \/ CacheSet(c)

SpecConcurrent == InitConcurrent /\ [][NextConcurrent]_vars

-----------------------------------------------------------------------------
(* Properties of SpecConcurrent *)

BothFinished == \A c \in Callers : procs[c].pc = "done"

\* C18: when two calculate_function_cost_now calls for the same (workload,
\* tenant) key interleave in any order, each returns its own computed set, and
\* once both have finished the cache entry for the key is exactly the complete
\* value written by whichever call wrote last, never a mixture of the two and
\* never absent.
InterleavedRefreshesBothReturnLastWriterWins ==
    BothFinished =>
        /\ \A c \in Callers :
              /\ procs[c].ret # None
              /\ procs[c].ret = period_costs(None, metrics_with_defaults(FunctionOf(c)))
        /\ SharedKey \in DOMAIN stored
        /\ cache_get(cache, SharedKey, now) =
              cache_entry(procs[stored[SharedKey].by].ret,
                          metrics_with_defaults(FunctionOf(stored[SharedKey].by)),
                          stored[SharedKey].at)

-----------------------------------------------------------------------------
(* SpecDashboard: the billing_dashboard view (billing/views.py), which asks  *)
(* the metrics collaborator (KnativeManager) for each function's metrics     *)

\* the names the Config class defines (faas_billing/config.py) among those the
\* billing views and the cost manager look up on `config`
ConfigNames ==
    { "HOURS_IN_MONTH", "MILLICORES_PER_CORE", "BYTES_PER_GB", "SECONDS_PER_HOUR",
      "PERIOD_MINUTE", "PERIOD_HOUR", "PERIOD_DAY", "PERIOD_MONTH",
      "METRICS_CACHE_TIMEOUT", "COST_CALCULATION_CACHE_TIMEOUT",
      "DEFAULT_CPU_REQUEST_PER_POD", "DEFAULT_MEMORY_REQUEST_PER_POD",
      "DEFAULT_EFFICIENCY_PERCENT", "DEFAULT_COLD_START_COUNT",
      "CACHE_KEY_FUNCTION_COST", "CACHE_KEY_METRICS",
      "CPU_CONVERSION_FACTORS", "MEMORY_CONVERSION_FACTORS",
      "get_periods", "get_cache_key_function_cost", "get_default_function_metrics",
      "get_service_label_selector", "get_default_container_spec",
      "get_default_annotations", "get_plan_limits" }

\* config.<name> raises AttributeError
AttributeError(name) == name \notin ConfigNames

\* the dict KnativeManager.get_function_metrics returns
KnativeResults ==
    { [ success |-> TRUE,
        data |-> [summary |-> [ pod_count |-> 1, total_cpu_request |-> 1000,
                                total_cpu_usage |-> 500,
                                total_memory_request |-> DEFAULT_MEMORY_REQUEST_PER_POD,
                                total_memory_usage |-> 0 ]] ],
      [ success |-> FALSE, error |-> "ApiException" ] }

\* get_function_metrics_from_knative(function) for the collaborator's answer
\* metrics_result: line 311 reads config.NANOCORES_TO_MILLICORES and line 337
\* calls config.get_fallback_metrics; the rest of each path runs only after
\* that lookup succeeds
get_function_metrics_from_knative(function, metrics_result) ==
    CASE metrics_result.success /\ AttributeError("NANOCORES_TO_MILLICORES") ->
            [raised |-> TRUE, metrics |-> None]
      [] ~metrics_result.success /\ AttributeError("get_fallback_metrics") ->
            [raised |-> TRUE, metrics |-> None]

\* BillingPeriod row
BillingPeriod(user, start_date, end_date) ==
    [user |-> user, start_date |-> start_date, end_date |-> end_date]

\* BillingPeriod.objects.get(user=user, start_date__lte=today, end_date__gte=today)
current_periods(user, today, billing_periods_) ==
    { p \in billing_periods_ : p.user = user /\ p.start_date <= today /\ p.end_date >= today }

\* lines 88-89: the hours since the first day of the month (today in days)
dashboard_period_hours(today) == RInt(24 * today)

RECURSIVE SumTotalCost(_, _)
SumTotalCost(costs, ids) ==
    IF ids = {} THEN Zero
    ELSE LET f == CHOOSE x \in ids : TRUE
         IN  RAdd(costs[f].total_cost, SumTotalCost(costs, ids \ {f}))

\* lines 102-113: what the view renders, from the breakdown of each function
dashboard_context(costs) ==
    [ raised |-> FALSE, function_costs |-> costs,
      total_cost |-> SumTotalCost(costs, DOMAIN costs) ]

\* lines 91-105: the loop over the tenant's functions, for the calculator's
\* plan; knative gives the collaborator's answer per function
dashboard_costs(tariff_plan, rows, knative, today) ==
    IF \E row \in rows : get_function_metrics_from_knative(row, knative[row.id]).raised
    THEN [raised |-> TRUE]
    ELSE dashboard_context(
             [ f \in {row.id : row \in rows} |->
                 function_cost(tariff_plan,
                               get_function_metrics_from_knative(
                                   CHOOSE row \in rows : row.id = f, knative[f]).metrics,
                               dashboard_period_hours(today), None) ])

\* stores of a month in progress: fresh or seeded, u1 owning up to two
\* functions, with or without a billing period that covers today
InitDashboard ==
    /\ \/ /\ plans = NoPlans
          /\ configs = 0
       \/ /\ plans = SeededPlans
          /\ configs = 1
    /\ subs = NoSubs
    /\ functions \in [FunctionIds -> {None} \cup { Function(f, u, 1, 5, EmptyDict) :
                                                     f \in FunctionIds, u \in Users }]
    /\ \A f \in FunctionIds : functions[f] # None => functions[f].id = f
    /\ functions[1] # None => functions[1].user = "u1"
    /\ now \in 0 .. MaxTime
    /\ billing_periods \in { {}, {BillingPeriod("u1", 0, SubscriptionDays)} }
    /\ user_subscriptions = {}
    /\ calc = None
    /\ op = NoOp
    /\ pre = None
    /\ function_metrics = EmptyDict
    /\ cluster_metrics = None
    /\ calls = <<>>
    /\ ret = None
    /\ cache = EmptyDict
    /\ stored = EmptyDict
    /\ procs = EmptyDict

\* billing_dashboard(request) for request.user = user: nothing in the view
\* catches an exception of the constructor, of the metrics helper or of the
\* cost computation.  One request per behaviour.
BillingDashboard(user, knative, fault) ==
    /\ ret = None
    /\ \E c \in { billing_calculator_init(user, fault, plans, subs, configs) },
          found \in { current_periods(user, now, billing_periods) },
          rows \in { functions_of(user, functions) } :
       \E r \in { IF c.raised \/ c.calc.tariff_plan # None \/ rows = {}
                   THEN [tariff_plan |-> Get(c.calc, "tariff_plan", None), plans |-> c.plans]
                   ELSE get_user_tariff_plan(user, c.plans, subs, fault = "tariff_lookup") } :
       \E d \in { IF c.raised \/ Cardinality(found) > 1 THEN [raised |-> TRUE]
                   ELSE dashboard_costs(r.tariff_plan, rows, knative, now) } :
          /\ ret' = IF d.raised THEN Raised ELSE d
          /\ plans' = IF d.raised THEN c.plans ELSE r.plans
          /\ calc' = IF c.raised THEN calc ELSE c.calc
          /\ configs' = c.configs
          /\ billing_periods' = IF c.raised \/ found # {} THEN billing_periods
                                ELSE billing_periods \cup {BillingPeriod(user, 0, now)}
          /\ op' = [name |-> "billing_dashboard", user |-> user, knative |-> knative,
                    fault |-> fault, raised |-> c.raised]
    /\ pre' = [plans |-> plans, subs |-> subs, configs |-> configs, now |-> now,
               functions |-> functions]
    /\ UNCHANGED <<subs, now, inputVars, calls, functions, cache, stored, procs, user_subscriptions>>

NextDashboard ==
    \E user \in Users, knative \in [FunctionIds -> KnativeResults], fault \in Faults :
        BillingDashboard(user, knative, fault)

SpecDashboard == InitDashboard /\ [][NextDashboard]_vars

-----------------------------------------------------------------------------
(* Properties of SpecDashboard *)

\* the functions of the tenant for which the collaborator reported failure
FailedFunctions ==
    { row \in functions_of(op.user, functions) : ~op.knative[row.id].success }

\* C19: when the metrics collaborator reports failure or returns no data for a
\* workload, obtaining the workload's billing metrics falls back to the
\* configured per-workload defaults and the cost computation still returns a
\* valid breakdown instead of an error.
CollaboratorFailureFallsBackToDefaults ==
    op.name = "billing_dashboard" /\ ~op.raised /\ FailedFunctions # {} =>
        /\ ret # Raised
        /\ \A row \in FailedFunctions :
              ret.function_costs[row.id] =
                  function_cost(calc.tariff_plan, get_default_function_metrics(row),
                                dashboard_period_hours(pre.now), None)

-----------------------------------------------------------------------------
(* SpecSubscriptions: create_subscription, upgrade_plan, cancel_subscription *)
(* and check_expired_subscriptions called one after another while days pass  *)

\* subscriptions a tenant may have when the calls start
InitialSubscriptions ==
    { UserSubscription(t, s, 0 - SubscriptionDays, e, a) :
        t \in PlanTier, s \in SubscriptionStatus, e \in {NullDate, 1}, a \in BOOLEAN }

InitSubscriptions ==
    /\ plans = SeededPlans
    /\ subs = NoSubs
    /\ configs = 1
    /\ now = 0
    /\ calc = None
    /\ op = NoOp
    /\ pre = None
    /\ function_metrics = EmptyDict
    /\ cluster_metrics = None
    /\ calls = <<>>
    /\ ret = None
    /\ functions = NoFunctions
    /\ cache = EmptyDict
    /\ stored = EmptyDict
    /\ procs = EmptyDict
    /\ billing_periods = {}
    /\ \E first \in {{}} \cup { {SubscriptionRow(1, "u1", s)} : s \in InitialSubscriptions } :
       \E second \in {first} \cup
                     { insert_subscription(first, "u2",
                          UserSubscription(PROFESSIONAL, ACTIVE, 0 - SubscriptionDays, 1, a)).rows :
                       a \in BOOLEAN } :
          user_subscriptions = second

\* SubscriptionManager.create_subscription(user, plans[tier])
CreateSubscription(user, tier) ==
    \E c \in { create_subscription(user, plans[tier], user_subscriptions, now) } :
        /\ user_subscriptions' = c.rows
        /\ ret' = IF c.raised THEN Raised
                  ELSE [fn |-> "create_subscription",
                        value |-> objects_get(subscriptions_of(user, c.rows)).row]
        /\ op' = [name |-> "create_subscription", user |-> user, tier |-> tier]
        /\ pre' = [rows |-> user_subscriptions, now |-> now]
        /\ UNCHANGED <<plans, subs, configs, now, calc, inputVars, calls,
                       functions, cache, stored, procs, billing_periods>>

\* SubscriptionManager.upgrade_plan(user, plans[tier]); follows_cancel records
\* that the call directly follows the tenant's successful immediate cancellation
UpgradePlan(user, tier) ==
    \E u \in { upgrade_plan(user, plans[tier], user_subscriptions, now) } :
        /\ user_subscriptions' = u.rows
        /\ ret' = [fn |-> "upgrade_plan", value |-> u.ret]
        /\ op' = [name |-> "upgrade_plan", user |-> user, tier |-> tier]
        /\ pre' = [rows |-> user_subscriptions, now |-> now,
                   follows_cancel |-> /\ op.name = "cancel_subscription"
                                      /\ op.user = user /\ op.immediate
                                      /\ ret = [fn |-> "cancel_subscription", value |-> TRUE]]
        /\ UNCHANGED <<plans, subs, configs, now, calc, inputVars, calls,
                       functions, cache, stored, procs, billing_periods>>

\* SubscriptionManager.cancel_subscription(user, immediate)
CancelSubscription(user, immediate) ==
    \E c \in { cancel_subscription(user, immediate, user_subscriptions) } :
        /\ user_subscriptions' = c.rows
        /\ ret' = IF c.raised THEN Raised
                  ELSE [fn |-> "cancel_subscription", value |-> c.ret]
        /\ op' = [name |-> "cancel_subscription", user |-> user, immediate |-> immediate]
        /\ pre' = [rows |-> user_subscriptions, now |-> now]
        /\ UNCHANGED <<plans, subs, configs, now, calc, inputVars, calls,
                       functions, cache, stored, procs, billing_periods>>

\* SubscriptionManager.check_expired_subscriptions()
CheckExpiredSubscriptions ==
    /\ user_subscriptions' = check_expired_subscriptions(user_subscriptions, now)
    /\ ret' = None
    /\ op' = [name |-> "check_expired_subscriptions"]
    /\ pre' = [rows |-> user_subscriptions, now |-> now]
    /\ UNCHANGED <<plans, subs, configs, now, calc, inputVars, calls,
                   functions, cache, stored, procs, billing_periods>>

\* a day passes
TickSubscriptions ==
    /\ now < MaxTime
    /\ now' = now + 1
    /\ op' = [name |-> "tick"]
    /\ pre' = None
    /\ ret' = None
    /\ UNCHANGED <<plans, subs, configs, calc, inputVars, calls, managerVars>>

NextSubscriptions ==
    \/ \E user \in Users, tier \in PlanTier : CreateSubscription(user, tier)
    \/ \E user \in Users, tier \in PlanTier : UpgradePlan(user, tier)
    \/ \E user \in Users, immediate \in BOOLEAN : CancelSubscription(user, immediate)
    \/ CheckExpiredSubscriptions
    \/ TickSubscriptions

SpecSubscriptions == InitSubscriptions /\ [][NextSubscriptions]_vars

-----------------------------------------------------------------------------
(* Properties of SpecSubscriptions *)

Upgraded == op.name = "upgrade_plan"
Swept == op.name = "check_expired_subscriptions"

\* the subscription the tenant of the last call had before the call
SubscriptionBefore == objects_get(subscriptions_of(op.user, pre.rows)).row
\* ... and has after it
SubscriptionAfter == objects_get(subscriptions_of(op.user, user_subscriptions)).row

WasActive == SubscriptionBefore # None /\ SubscriptionBefore.status = ACTIVE

\* C22: for a tenant with an ACTIVE subscription upgrade_plan returns true only
\* when the new plan's tier is strictly higher in STARTER < PROFESSIONAL <
\* ENTERPRISE; for an equal or lower tier it returns false and leaves the
\* subscription's plan, status, start_date and end_date (the whole table) as
\* they were
UpgradeOnlyToStrictlyHigherTier ==
    (Upgraded /\ WasActive) =>
        LET higher == \/ SubscriptionBefore.tariff_plan = STARTER /\ op.tier # STARTER
                      \/ SubscriptionBefore.tariff_plan = PROFESSIONAL /\ op.tier = ENTERPRISE
        IN  /\ ret.value = higher
            /\ ~higher => user_subscriptions = pre.rows

\* an upgrade to the tier the tenant's ACTIVE subscription is on was refused
SameTierUpgradeRefused ==
    /\ Upgraded /\ WasActive
    /\ SubscriptionBefore.tariff_plan = op.tier
    /\ ret.value = FALSE

\* the rows the last sweep found ACTIVE with an end_date earlier than its now
DueBefore ==
    { r \in pre.rows : r.status = ACTIVE /\ r.end_date # NullDate /\ r.end_date < pre.now }

\* C23: when check_expired_subscriptions runs at time now, every subscription
\* that was ACTIVE with end_date earlier than now ends up still ACTIVE with
\* end_date = now + 30 days if auto_renew, and EXPIRED if not; every other
\* subscription is left as it was; so right after the sweep no ACTIVE
\* subscription has an end_date in the past
SweepRenewsOrExpiresExactlyTheDue ==
    Swept =>
        /\ user_subscriptions =
              (pre.rows \ DueBefore)
              \cup { [r EXCEPT !.end_date = pre.now + SubscriptionDays] :
                        r \in { d \in DueBefore : d.auto_renew } }
              \cup { [r EXCEPT !.status = EXPIRED] :
                        r \in { d \in DueBefore : ~d.auto_renew } }
        /\ \A r \in user_subscriptions :
              r.status = ACTIVE /\ r.end_date # NullDate => r.end_date >= now

\* a sweep renewed one tenant's subscription and expired another's
SweepRenewedOneAndExpiredAnother ==
    /\ Swept
    /\ \E r \in DueBefore : r.auto_renew
    /\ \E r \in DueBefore : ~r.auto_renew

\* C27: upgrade_plan applies the tier-ordering check only to tenants whose
\* subscription is ACTIVE: for a tenant whose subscription is cancelled,
\* expired, suspended or missing, upgrade_plan with any plan returns true and
\* leaves the tenant's single subscription ACTIVE on that plan with a fresh
\* 30-day window and auto_renew on, whatever tier the tenant was on
UpgradeWithoutActiveSubscriptionAlwaysSucceeds ==
    (Upgraded /\ ~WasActive) =>
        /\ ret.value = TRUE
        /\ Cardinality(subscriptions_of(op.user, user_subscriptions)) = 1
        /\ SubscriptionAfter.tariff_plan = op.tier
        /\ SubscriptionAfter.status = ACTIVE
        /\ SubscriptionAfter.start_date = pre.now
        /\ SubscriptionAfter.end_date = pre.now + SubscriptionDays
        /\ SubscriptionAfter.auto_renew
        /\ \A r \in pre.rows : r.user # op.user => r \in user_subscriptions

\* cancel_subscription followed by upgrade_plan moved a tenant from the
\* enterprise tier to the starter tier
CancelThenUpgradeMovedToLowerTier ==
    /\ Upgraded /\ pre.follows_cancel
    /\ SubscriptionBefore.status = CANCELLED
    /\ SubscriptionBefore.tariff_plan = ENTERPRISE
    /\ ret.value = TRUE
    /\ SubscriptionAfter.status = ACTIVE
    /\ SubscriptionAfter.tariff_plan = STARTER

-----------------------------------------------------------------------------
(* SpecSubscriptionRace: two callers run SubscriptionManager calls at once.  *)
(* Each query is one step (an INSERT or UPDATE commits with its step); the   *)
(* steps of the two callers interleave in any order.                         *)

\* the tenant both callers create, upgrade and cancel subscriptions for
SharedTenant == "u1"

\* the calls a caller may make
SubscriptionCalls ==
    { [name |-> n, tier |-> t, immediate |-> TRUE] :
        n \in {"create_subscription", "upgrade_plan"}, t \in PlanTier }
    \cup { [name |-> "cancel_subscription", tier |-> STARTER, immediate |-> i] : i \in BOOLEAN }
    \cup { [name |-> "check_expired_subscriptions", tier |-> STARTER, immediate |-> TRUE] }

\* a caller between two calls
IdleCaller == [pc |-> "idle", call |-> NoOp, instance |-> None, todo |-> {}]

InitSubscriptionRace ==
    /\ plans = SeededPlans
    /\ subs = NoSubs
    /\ configs = 1
    /\ now = 1
    /\ calc = None
    /\ op = NoOp
    /\ pre = None
    /\ function_metrics = EmptyDict
    /\ cluster_metrics = None
    /\ calls = <<>>
    /\ ret = None
    /\ functions = NoFunctions
    /\ cache = EmptyDict
    /\ stored = EmptyDict
    /\ procs = [c \in Callers |-> IdleCaller]
    /\ billing_periods = {}
    /\ \E first \in {{}} \cup
                    { {SubscriptionRow(1, SharedTenant,
                          UserSubscription(PROFESSIONAL, s, 0 - SubscriptionDays, 0, a))} :
                      s \in {ACTIVE, CANCELLED}, a \in BOOLEAN } :
       \E second \in {first} \cup
                     { insert_subscription(first, "u2",
                          UserSubscription(STARTER, ACTIVE, 0 - SubscriptionDays, 0, FALSE)).rows } :
          user_subscriptions = second

\* the call returns (or raises): the caller is idle again
Return(c, value) ==
    /\ procs' = [procs EXCEPT ![c] = IdleCaller]
    /\ ret' = [fn |-> procs[c].call.name, caller |-> c, value |-> value]

\* the caller goes on to its next query
Goto(c, pc, instance) ==
    /\ procs' = [procs EXCEPT ![c].pc = pc, ![c].instance = instance]
    /\ ret' = ret

\* what create_subscription writes into the row it found (lines 54-58)
Rewritten(c, row) ==
    SubscriptionRow(row.id, row.user, new_subscription(plans[procs[c].call.tier], now))

\* a caller enters one of the four methods
Begin(c, call) ==
    /\ procs[c].pc = "idle"
    /\ procs' = [procs EXCEPT ![c].call = call,
                              ![c].pc = CASE call.name = "create_subscription" -> "get_or_create"
                                          [] call.name = "check_expired_subscriptions" -> "filter"
                                          [] OTHER -> "get_active"]
    /\ op' = [name |-> "Begin", caller |-> c]
    /\ UNCHANGED <<storeVars, inputVars, calls, ret, functions, cache, stored,
                   billing_periods, user_subscriptions>>

\* lines 68 and 95: get_active_subscription(user), and what the method does
\* with its result before its next query
GetActive(c) ==
    /\ procs[c].pc = "get_active"
    /\ \E current \in { get_active_subscription(SharedTenant, user_subscriptions) } :
          IF procs[c].call.name = "upgrade_plan"
          THEN IF current.raised THEN Return(c, FALSE)
               ELSE IF current.row = None THEN Goto(c, "get_or_create", None)
               ELSE IF ~can_upgrade(current.row.tariff_plan, procs[c].call.tier)
               THEN Return(c, FALSE)
               ELSE Goto(c, "save", upgraded_subscription(current.row,
                                        plans[procs[c].call.tier], now))
          ELSE IF current.raised THEN Return(c, Raised)
               ELSE IF current.row = None THEN Return(c, FALSE)
               ELSE Goto(c, "save",
                         IF procs[c].call.immediate
                         THEN [current.row EXCEPT !.status = CANCELLED, !.auto_renew = FALSE]
                         ELSE [current.row EXCEPT !.auto_renew = FALSE])
    /\ op' = [name |-> "GetActive", caller |-> c]
    /\ UNCHANGED <<storeVars, inputVars, calls, functions, cache, stored,
                   billing_periods, user_subscriptions>>

\* line 41: the SELECT that get_or_create starts with
GetOrCreate(c) ==
    /\ procs[c].pc = "get_or_create"
    /\ \E found \in { objects_get(subscriptions_of(SharedTenant, user_subscriptions)) } :
          IF found.raised THEN Return(c, IF procs[c].call.name = "upgrade_plan"
                                         THEN FALSE ELSE Raised)
          ELSE IF found.row = None THEN Goto(c, "insert", None)
          ELSE Goto(c, "save", Rewritten(c, found.row))
    /\ op' = [name |-> "GetOrCreate", caller |-> c]
    /\ UNCHANGED <<storeVars, inputVars, calls, functions, cache, stored,
                   billing_periods, user_subscriptions>>

\* line 41: the INSERT of get_or_create; on IntegrityError get_or_create
\* selects again
Insert(c) ==
    /\ procs[c].pc = "insert"
    /\ \E i \in { insert_subscription(user_subscriptions, SharedTenant,
                      new_subscription(plans[procs[c].call.tier], now)) } :
          /\ user_subscriptions' = i.rows
          /\ IF i.raised THEN Goto(c, "get_again", None)
             ELSE Return(c, IF procs[c].call.name = "upgrade_plan" THEN TRUE
                            ELSE objects_get(subscriptions_of(SharedTenant, i.rows)).row)
    /\ op' = [name |-> "Insert", caller |-> c]
    /\ UNCHANGED <<storeVars, inputVars, calls, functions, cache, stored, billing_periods>>

\* line 41: the second SELECT of get_or_create, after the IntegrityError
GetAgain(c) ==
    /\ procs[c].pc = "get_again"
    /\ \E found \in { objects_get(subscriptions_of(SharedTenant, user_subscriptions)) } :
          IF found.raised \/ found.row = None
          THEN Return(c, IF procs[c].call.name = "upgrade_plan" THEN FALSE ELSE Raised)
          ELSE Goto(c, "save", Rewritten(c, found.row))
    /\ op' = [name |-> "GetAgain", caller |-> c]
    /\ UNCHANGED <<storeVars, inputVars, calls, functions, cache, stored,
                   billing_periods, user_subscriptions>>

\* lines 59, 75, 84 and 110: subscription.save(), then the method returns
Save(c) ==
    /\ procs[c].pc = "save"
    /\ user_subscriptions' = save_subscription(user_subscriptions, procs[c].instance)
    /\ Return(c, IF procs[c].call.name = "create_subscription" THEN procs[c].instance ELSE TRUE)
    /\ op' = [name |-> "Save", caller |-> c]
    /\ UNCHANGED <<storeVars, inputVars, calls, functions, cache, stored, billing_periods>>

\* lines 190-193: the sweep's query
Filter(c) ==
    /\ procs[c].pc = "filter"
    /\ \E expired \in { expired_subscriptions(user_subscriptions, now) } :
          IF expired = {} THEN Return(c, None)
          ELSE /\ procs' = [procs EXCEPT ![c].pc = "sweep", ![c].todo = expired]
               /\ ret' = ret
    /\ op' = [name |-> "Filter", caller |-> c]
    /\ UNCHANGED <<storeVars, inputVars, calls, functions, cache, stored,
                   billing_periods, user_subscriptions>>

\* lines 195-213: the sweep saves the next subscription it loaded
SweepOne(c) ==
    /\ procs[c].pc = "sweep"
    /\ \E r \in procs[c].todo :
          /\ user_subscriptions' = save_subscription(user_subscriptions, swept(r, now))
          /\ IF procs[c].todo = {r} THEN Return(c, None)
             ELSE /\ procs' = [procs EXCEPT ![c].todo = procs[c].todo \ {r}]
                  /\ ret' = ret
    /\ op' = [name |-> "SweepOne", caller |-> c]
    /\ UNCHANGED <<storeVars, inputVars, calls, functions, cache, stored, billing_periods>>

NextSubscriptionRace ==
    \E c \in Callers :
        \/ \E call \in SubscriptionCalls : Begin(c, call)
        \/ GetActive(c)
        \/ GetOrCreate(c)
        \/ Insert(c)
        \/ GetAgain(c)
        \/ Save(c)
        \/ Filter(c)
        \/ SweepOne(c)

SpecSubscriptionRace == InitSubscriptionRace /\ [][NextSubscriptionRace]_vars

-----------------------------------------------------------------------------
(* Properties of SpecSubscriptionRace *)

\* C21: after any sequence of create_subscription, upgrade_plan,
\* cancel_subscription and check_expired_subscriptions calls, concurrent
\* create or upgrade calls for the same user included, every tenant has at
\* most one subscription row
AtMostOneSubscriptionPerTenant ==
    \A u \in Users : Cardinality(subscriptions_of(u, user_subscriptions)) <= 1

\* two concurrent creations for a tenant without a row: the second INSERT hit
\* the unique constraint and its caller is about to select the other's row
SecondInsertRefused ==
    /\ \E c \in Callers : procs[c].pc = "get_again"
    /\ Cardinality(subscriptions_of(SharedTenant, user_subscriptions)) = 1

-----------------------------------------------------------------------------
(* SpecMetricsUpdate: the update_function_metrics view (billing/views.py),   *)
(* which samples a function's metrics from the collaborator (KnativeManager) *)
(* and accumulates them in Function.metrics                                  *)

\* the summary of a successful KnativeManager.get_function_metrics
MetricsSummary(cpu_usage, memory_usage) ==
    [ pod_count |-> 1, total_cpu_usage |-> cpu_usage, total_memory_usage |-> memory_usage,
      total_cpu_request |-> 1000, total_memory_request |-> DEFAULT_MEMORY_REQUEST_PER_POD,
      total_pod_uptime_seconds |-> 60, max_cold_start_time_seconds |-> 2 ]

\* what the collaborator answers: a summary, the error dict of a caught
\* ApiException, or any other exception, which leaves get_function_metrics
MetricsResults ==
    { [ success |-> TRUE, raised |-> FALSE,
        data |-> [summary |-> MetricsSummary(c, m)] ] : c \in {0, 500}, m \in {0, 64} }
    \cup { [success |-> FALSE, raised |-> FALSE, error |-> "ApiException"],
           [success |-> FALSE, raised |-> TRUE, error |-> "ConnectionError"] }

\* lines 262-267: the usage of the sample added to the stored usage
accumulated_usage(metrics, metrics_data) ==
    [ key \in DOMAIN metrics \cup
              ({"total_cpu_usage", "total_memory_usage"} \cap DOMAIN metrics_data) |->
        IF key \in {"total_cpu_usage", "total_memory_usage"} /\ key \in DOMAIN metrics_data
        THEN IF key \in DOMAIN metrics THEN metrics[key] + metrics_data[key]
             ELSE metrics_data[key]
        ELSE metrics[key] ]

\* lines 270-277: the current values of the sample and the cold-start counter
current_values(new_metrics, metrics_data) ==
    [ total_cpu_request |-> Get(metrics_data, "total_cpu_request", 0),
      total_memory_request |-> Get(metrics_data, "total_memory_request", 0),
      pod_count |-> Get(metrics_data, "pod_count", 0),
      total_pod_uptime_seconds |-> Get(metrics_data, "total_pod_uptime_seconds", 0),
      max_cold_start_time_seconds |-> Get(metrics_data, "max_cold_start_time_seconds", 0),
      cold_start_count |-> Get(new_metrics, "cold_start_count", 0) + 1 ]

\* dict.update: the keys of the second dict replace those of the first
dict_update(d, u) == [ k \in DOMAIN d \cup DOMAIN u |-> IF k \in DOMAIN u THEN u[k] ELSE d[k] ]

\* lines 258-279 with the usage of the sample replacing the stored usage
new_metrics_replacing_usage(metrics, metrics_data) ==
    dict_update(dict_update(metrics, metrics_data), current_values(metrics, metrics_data))

\* lines 258-279: the metrics saved for the stored metrics and the sample
new_metrics(metrics, metrics_data) ==
    dict_update(accumulated_usage(metrics, metrics_data),
                current_values(accumulated_usage(metrics, metrics_data), metrics_data))

\* update_function_metrics(request, function_id) for request.user = user:
\* the response status and the Function table afterwards
update_function_metrics(user, function_id, metrics_result, functions_) ==
    IF functions_[function_id] = None \/ functions_[function_id].user # user
    THEN [status |-> 404, functions |-> functions_]
    ELSE IF metrics_result.raised \/ ~metrics_result.success
    THEN [status |-> 400, functions |-> functions_]
    ELSE [ status |-> 200,
           functions |-> [functions_ EXCEPT ![function_id].metrics =
                            new_metrics(functions_[function_id].metrics,
                                        metrics_result.data.summary)] ]

\* the metrics the functions hold when the requests start: function 1 has
\* never been sampled
InitialMetrics(f) ==
    IF f = 1 THEN EmptyDict
    ELSE [cold_start_count |-> 3, total_cpu_usage |-> 50, total_memory_usage |-> 64]

InitMetricsUpdate ==
    /\ plans = SeededPlans
    /\ subs = NoSubs
    /\ configs = 1
    /\ now = 0
    /\ calc = None
    /\ op = NoOp
    /\ pre = None
    /\ function_metrics = EmptyDict
    /\ cluster_metrics = None
    /\ calls = <<>>
    /\ ret = None
    /\ functions = [f \in FunctionIds |-> Function(f, Owner(f), MinScale(f), 5, InitialMetrics(f))]
    /\ cache = EmptyDict
    /\ stored = EmptyDict
    /\ procs = EmptyDict
    /\ billing_periods = {}
    /\ user_subscriptions = {}

\* one request; calls keeps the samples of the updates that were saved
UpdateFunctionMetrics(user, f, metrics_result) ==
    /\ Len(calls) < MaxCalls
    /\ \E u \in { update_function_metrics(user, f, metrics_result, functions) } :
          /\ functions' = u.functions
          /\ ret' = [fn |-> "update_function_metrics", status |-> u.status]
          /\ calls' = IF u.status = 200
                      THEN Append(calls, [function |-> f,
                                          summary |-> metrics_result.data.summary])
                      ELSE calls
    /\ op' = [name |-> "update_function_metrics", user |-> user, function |-> f,
              metrics_result |-> metrics_result]
    /\ pre' = [functions |-> functions]
    /\ UNCHANGED <<plans, subs, configs, now, calc, inputVars, cache, stored, procs,
                   billing_periods, user_subscriptions>>

NextMetricsUpdate ==
    \E user \in Users, f \in FunctionIds, metrics_result \in MetricsResults :
        UpdateFunctionMetrics(user, f, metrics_result)

SpecMetricsUpdate == InitMetricsUpdate /\ [][NextMetricsUpdate]_vars

-----------------------------------------------------------------------------
(* Properties of SpecMetricsUpdate *)

\* the saved updates of function f, in order
UpdatesOf(f) == SelectSeq(calls, LAMBDA c : c.function = f)

RECURSIVE SumOfSamples(_, _)
SumOfSamples(updates, key) ==
    IF updates = <<>> THEN 0
    ELSE Head(updates).summary[key] + SumOfSamples(Tail(updates), key)

UpdatedMetrics == op.name = "update_function_metrics"

\* C29: every successful update_function_metrics call raises the workload's
\* stored cold_start_count by exactly 1 and adds the newly sampled CPU and
\* memory usage to the stored totals, so over any sequence of updates
\* cold_start_count never decreases and equals the number of successful
\* updates plus its initial value; a call in which the metrics collaborator
\* fails leaves the stored metrics unchanged
UpdatesCountColdStartsAndAccumulateUsage ==
    /\ \A f \in FunctionIds :
          /\ Get(functions[f].metrics, "cold_start_count", 0) =
                Get(InitialMetrics(f), "cold_start_count", 0) + Len(UpdatesOf(f))
          /\ \A key \in {"total_cpu_usage", "total_memory_usage"} :
                Get(functions[f].metrics, key, 0) =
                    Get(InitialMetrics(f), key, 0) + SumOfSamples(UpdatesOf(f), key)
    /\ UpdatedMetrics /\ ret.status = 200 =>
          LET before == pre.functions[op.function].metrics
              after == functions[op.function].metrics
              sample == op.metrics_result.data.summary
          IN  /\ after.cold_start_count = Get(before, "cold_start_count", 0) + 1
              /\ after.total_cpu_usage =
                    Get(before, "total_cpu_usage", 0) + sample.total_cpu_usage
              /\ after.total_memory_usage =
                    Get(before, "total_memory_usage", 0) + sample.total_memory_usage
              /\ \A g \in FunctionIds \ {op.function} : functions[g] = pre.functions[g]
    /\ UpdatedMetrics /\ ret.status # 200 => functions = pre.functions

\* after an update of a sampled function was saved, a request in which the
\* collaborator failed left the function's metrics as the update saved them
CollaboratorFailureAfterAnUpdate ==
    /\ UpdatedMetrics
    /\ ~op.metrics_result.success
    /\ functions[op.function].user = op.user
    /\ ret.status = 400
    /\ Len(UpdatesOf(op.function)) = 1
    /\ functions[op.function].metrics.total_cpu_usage = 550
    /\ functions[op.function].metrics.cold_start_count = 4

-----------------------------------------------------------------------------
(* SpecFunctions: the deploy_function and delete_function views              *)
(* (functions/views.py) over the Function table, with the answers of the     *)
(* cluster collaborator (KnativeManager)                                     *)

DEPLOYING == "DEPLOYING"
READY == "READY"
FAILED == "FAILED"
DELETING == "DELETING"
FunctionStatus == {DEPLOYING, READY, FAILED, DELETING}

\* Function.name is unique
FunctionNames == {"resize", "thumb"}

\* what KnativeManager.deploy_function / delete_function answer: success, the
\* error dict of a caught ApiException, or an exception that is not an
\* ApiException (as is one of the KnativeManager constructor) and leaves the
\* view
ClusterResults ==
    { [success |-> TRUE, raised |-> FALSE],
      [success |-> FALSE, raised |-> FALSE],
      [success |-> FALSE, raised |-> TRUE] }

\* Function.objects.create(name=..., user=..., status=DEPLOYING) and the
\* fields the views assign later
DeployedFunction(id, user, name, status, url) ==
    [ id |-> id, user |-> user, name |-> name, status |-> status, url |-> url,
      min_scale |-> 0, max_scale |-> 5, metrics |-> EmptyDict ]

\* Function.objects.filter(name=name).exists()
name_exists(name, functions_) ==
    \E f \in FunctionIds : functions_[f] # None /\ functions_[f].name = name

\* the primary key of the next row; the model has one key per row the table
\* can hold and gives a key again after its row was deleted
free_ids(functions_) == { f \in FunctionIds : functions_[f] = None }

\* lines 74-81: the status and url saved for the collaborator's answer
deployed(function, result) ==
    IF result.success
    THEN [function EXCEPT !.status = READY, !.url = function.name]
    ELSE [function EXCEPT !.status = FAILED]

\* deploy_function(request) for request.user = user and the posted name:
\* the Function table afterwards
deploy_function(user, method, name, result, functions_) ==
    IF method # "POST" \/ name_exists(name, functions_) THEN functions_
    ELSE LET id == CHOOSE f \in free_ids(functions_) :
                       \A g \in free_ids(functions_) : f <= g
             function == DeployedFunction(id, user, name, DEPLOYING, "")
         IN  [functions_ EXCEPT ![id] = IF result.raised THEN function
                                        ELSE deployed(function, result)]

\* get_object_or_404(Function, pk=pk, user=request.user)
get_object_or_404(pk, user, functions_) ==
    IF functions_[pk] # None /\ functions_[pk].user = user THEN functions_[pk] ELSE None

\* delete_function putting back the status the function had before the request
delete_function_restoring_status(user, method, pk, result, functions_) ==
    LET function == get_object_or_404(pk, user, functions_)
    IN  IF function = None THEN [status |-> 404, functions |-> functions_]
        ELSE IF method # "POST" THEN [status |-> 200, functions |-> functions_]
        ELSE IF result.raised
        THEN [status |-> 500,
              functions |-> [functions_ EXCEPT ![pk].status = DELETING]]
        ELSE IF result.success
        THEN [status |-> 302, functions |-> [functions_ EXCEPT ![pk] = None]]
        ELSE [status |-> 302, functions |-> functions_]

\* delete_function(request, pk) for request.user = user: the response status
\* and the Function table afterwards
delete_function(user, method, pk, result, functions_) ==
    LET function == get_object_or_404(pk, user, functions_)
    IN  IF function = None THEN [status |-> 404, functions |-> functions_]
        ELSE IF method # "POST" THEN [status |-> 200, functions |-> functions_]
        ELSE IF result.raised
        THEN [status |-> 500,
              functions |-> [functions_ EXCEPT ![pk].status = DELETING]]
        ELSE IF result.success
        THEN [status |-> 302, functions |-> [functions_ EXCEPT ![pk] = None]]
        ELSE [status |-> 302,
              functions |-> [functions_ EXCEPT ![pk].status = READY]]

\* an empty table; stored keeps, per row, whether its deployment succeeded
InitFunctions ==
    /\ plans = SeededPlans
    /\ subs = NoSubs
    /\ configs = 1
    /\ now = 0
    /\ calc = None
    /\ op = NoOp
    /\ pre = None
    /\ function_metrics = EmptyDict
    /\ cluster_metrics = None
    /\ calls = <<>>
    /\ ret = None
    /\ functions = NoFunctions
    /\ cache = EmptyDict
    /\ stored = [f \in FunctionIds |-> FALSE]
    /\ procs = EmptyDict
    /\ billing_periods = {}
    /\ user_subscriptions = {}

\* one request to deploy_function
DeployFunction(user, method, name, result) ==
    /\ method = "POST" /\ ~name_exists(name, functions) => free_ids(functions) # {}
    /\ \E after \in { deploy_function(user, method, name, result, functions) } :
          /\ functions' = after
          /\ stored' = [ f \in FunctionIds |->
                           IF functions[f] = None /\ after[f] # None
                           THEN result.success /\ ~result.raised
                           ELSE stored[f] ]
    /\ ret' = [fn |-> "deploy_function",
               status |-> IF method # "POST" \/ name_exists(name, functions) THEN 200
                          ELSE IF result.raised THEN 500 ELSE 302]
    /\ op' = [name |-> "deploy_function", user |-> user, method |-> method,
              function |-> name, result |-> result]
    /\ pre' = [functions |-> functions]
    /\ UNCHANGED <<plans, subs, configs, now, calc, inputVars, calls, cache, procs,
                   billing_periods, user_subscriptions>>

\* one request to delete_function
DeleteFunction(user, method, pk, result) ==
    /\ \E d \in { delete_function(user, method, pk, result, functions) } :
          /\ functions' = d.functions
          /\ ret' = [fn |-> "delete_function", status |-> d.status]
    /\ op' = [name |-> "delete_function", user |-> user, method |-> method,
              function |-> pk, result |-> result]
    /\ pre' = [functions |-> functions]
    /\ UNCHANGED <<plans, subs, configs, now, calc, inputVars, calls, cache, stored, procs,
                   billing_periods, user_subscriptions>>

NextFunctions ==
    \/ \E user \in Users, method \in {"GET", "POST"}, name \in FunctionNames,
          result \in ClusterResults : DeployFunction(user, method, name, result)
    \/ \E user \in Users, method \in {"GET", "POST"}, pk \in FunctionIds,
          result \in ClusterResults : DeleteFunction(user, method, pk, result)

SpecFunctions == InitFunctions /\ [][NextFunctions]_vars

-----------------------------------------------------------------------------
(* Properties of SpecFunctions *)

DeleteRequested ==
    /\ op.name = "delete_function" /\ op.method = "POST"
    /\ get_object_or_404(op.function, op.user, pre.functions) # None

\* the row the last deploy_function request created, if it created one
Created ==
    { f \in FunctionIds : /\ op.name = "deploy_function"
                          /\ pre.functions[f] = None /\ functions[f] # None }

\* what the cluster collaborator answered to the last request
ClusterSucceeded == op.result.success /\ ~op.result.raised
ClusterReportedFailure == ~op.result.success /\ ~op.result.raised
ClusterRaised == op.result.raised

\* C30 as stated: whenever the cluster deletion does not succeed the record
\* is kept and its status is READY after the request
FailedDeleteLeavesReady ==
    DeleteRequested /\ ~ClusterSucceeded =>
        /\ functions[op.function] # None
        /\ functions[op.function].status = READY

\* C30: a workload record is removed by delete_function only when the cluster
\* deletion succeeds; when the deletion reports failure the record is kept
\* and its status is set to READY whatever its status was before the delete
\* request (so a workload whose deployment FAILED reaches READY without any
\* successful deployment); when the collaborator raises instead, the record
\* is kept with the status DELETING.  deploy_function leaves a new workload
\* READY exactly when the cluster deployment reported success, FAILED when
\* it reported failure and DEPLOYING when the collaborator raised.
DeleteKeepsAsReadyAndDeployReportsStatus ==
    /\ \A f \in FunctionIds :
          op.name # "none" /\ pre.functions[f] # None /\ functions[f] = None =>
              DeleteRequested /\ op.function = f /\ ClusterSucceeded
    /\ DeleteRequested /\ ClusterSucceeded =>
          functions = [pre.functions EXCEPT ![op.function] = None]
    /\ DeleteRequested /\ ClusterReportedFailure =>
          functions = [pre.functions EXCEPT ![op.function].status = READY]
    /\ DeleteRequested /\ ClusterRaised =>
          functions = [pre.functions EXCEPT ![op.function].status = DELETING]
    /\ \A f \in Created :
          /\ functions[f].status = READY <=> ClusterSucceeded
          /\ ClusterReportedFailure => functions[f].status = FAILED
          /\ ClusterRaised => functions[f].status = DEPLOYING

\* a function whose deployment failed is READY after a delete request that
\* the cluster refused
FailedDeploymentBecameReady ==
    /\ DeleteRequested /\ ClusterReportedFailure
    /\ pre.functions[op.function].status = FAILED
    /\ ~stored[op.function]
    /\ functions[op.function].status = READY

=============================================================================
